---- MODULE Spec2Model ----
(***************************************************************************)
(* Flight aggregation pipeline: FlightAggregatorService.searchFlights      *)
(* (cache-aside read, provider selection, fan-out with Promise.allSettled, *)
(* deduplication, ranking, status, cache write), CacheService and          *)
(* RankingEngine.                                                          *)
(*                                                                         *)
(* Conventions.  An optional value (a TypeScript `x?: T`, or `T | null`)   *)
(* is a sequence of length at most one: <<>> is undefined/null and <<v>>   *)
(* is the value v.  Numbers the code keeps as floating point are kept as   *)
(* exact rationals; a score is an integer number of hundredths (the code   *)
(* rounds every score to 2 decimals), a weight an integer number of        *)
(* hundredths.  Time is in seconds.                                        *)
(***************************************************************************)
EXTENDS Integers, Sequences, FiniteSets, TLC

VARIABLES
    providers,      \* FlightAggregatorService.providers: names in Map insertion order
    redisInit,      \* CacheService constructor: "disabled", "connecting" or "settled"
    isConnected,    \* CacheService.isConnected
    redis,          \* the Redis store: key -> <<>> or <<[value, expiresAt]>>
    now,            \* wall clock, seconds
    nCalls,         \* searchFlights calls started so far
    pc,             \* per call: position in searchFlights
    params,         \* per call: the request
    startTime,      \* per call: const startTime = Date.now()
    getIssued,      \* per call: redisClient.get was issued (cache connected at the call)
    toQuery,        \* per call: providersToQuery
    tasks,          \* per call: the queryProvider promises, in providersToQuery order
    settledAt,      \* per call and promise: <<>> or <<the instant at which it settled>>
    result,         \* per call: <<>> or <<the FlightSearchResult returned>>
    path,           \* per call: how the call returned
    pendingSet,     \* per call: <<>> or <<the JSON text handed to redisClient.setEx>>
    weights,        \* RankingEngine.priceWeight/durationWeight/stopsWeight, hundredths
    rankInput,      \* ranking harness: the list passed to rankFlights
    rankOutput,     \* ranking harness: <<>> or <<the list rankFlights returned>>
    rankWeights,    \* ranking harness: the weights installed when rankOutput was computed
    prevOutput,     \* ranking harness: the previous call's rankOutput
    prevWeights,    \* ranking harness: the previous call's rankWeights
    weightsCall,    \* <<>> or <<the last setWeights call: its arguments, whether it threw>>
    filterCriteria, \* <<>> or <<the criteria of the last filterFlights call>>
    filterOutput,   \* <<>> or <<the list filterFlights returned>>
    priceStats,     \* <<>> or <<what getPriceStats returned>>, hundredths
    endpointParams, \* POST /search: <<>> or <<the params built from the last request body>>
    validation,     \* POST /search: <<>> or <<what validateSearchParams returned for them>>
    response,       \* POST /search: "none", "BadRequest" or "searching"
    dedupeInput,    \* the list passed to deduplicateFlights
    dedupeOutput,   \* <<>> or <<the list deduplicateFlights returned>>
    dedupeAgain,    \* <<>> or <<what deduplicateFlights returned for dedupeOutput>>
    selectParams,   \* <<>> or <<the request of the last selectProviders call>>
    selectOutput,   \* <<>> or <<the names selectProviders returned>>
    keyParams,      \* <<>> or <<the two requests of the last pair of generateCacheKey calls>>
    keyOutput       \* <<>> or <<the two keys generateCacheKey returned for them>>

vars == <<providers, redisInit, isConnected, redis, now, nCalls, pc, params,
          startTime, getIssued, toQuery, tasks, settledAt, result, path, pendingSet,
          weights, rankInput, rankOutput, rankWeights, prevOutput, prevWeights,
          weightsCall, filterCriteria, filterOutput, priceStats,
          endpointParams, validation, response,
          dedupeInput, dedupeOutput, dedupeAgain, selectParams, selectOutput,
          keyParams, keyOutput>>

helperVars == <<dedupeInput, dedupeOutput, dedupeAgain, selectParams, selectOutput,
                keyParams, keyOutput>>

endpointVars == <<endpointParams, validation, response>>

pipelineVars == <<providers, redisInit, isConnected, redis, now, nCalls, pc, params,
                  startTime, getIssued, toQuery, tasks, settledAt, result, path, pendingSet,
                  endpointParams, validation, response,
                  dedupeInput, dedupeOutput, dedupeAgain, selectParams, selectOutput,
                  keyParams, keyOutput>>

toolVars == <<filterCriteria, filterOutput, priceStats>>

harnessVars == <<rankInput, rankOutput, rankWeights, prevOutput, prevWeights,
                 filterCriteria, filterOutput, priceStats>>

(***************************************************************************)
(* Bounds of the model.                                                    *)
(***************************************************************************)
MaxCalls == 1        \* searchFlights calls per behaviour of Spec
MaxFlights == 3      \* length of the lists handed to the ranking harness
MaxTicks == 2        \* clock ticks per behaviour
TickSeconds == 300   \* seconds per clock tick
MaxConcurrent == 2   \* call slots; Spec and CacheSpec run their calls in slot 1

(***************************************************************************)
(* Program constants.                                                      *)
(***************************************************************************)
CacheTtlSeconds == 600
DefaultPriceWeight == 60
DefaultDurationWeight == 25
DefaultStopsWeight == 15
WeightTolerance == 1

(***************************************************************************)
(* Generic helpers.                                                        *)
(***************************************************************************)
None == <<>>

Some(v) == <<v>>

OrZero(o) == IF o = None THEN 0 ELSE o[1]

Abs(x) == IF x < 0 THEN -x ELSE x

\* Math.round(n / d) for d > 0: nearest integer, halves towards +infinity.
MathRound(n, d) == (2 * n + d) \div (2 * d)

Range(s) == {s[i] : i \in 1..Len(s)}

SeqMin(s) == CHOOSE x \in Range(s) : \A y \in Range(s) : x <= y

SeqMax(s) == CHOOSE x \in Range(s) : \A y \in Range(s) : x >= y

RECURSIVE Concat(_)
Concat(ss) == IF ss = <<>> THEN <<>> ELSE Head(ss) \o Concat(Tail(ss))

RECURSIVE SelectSeqIdx(_, _)
\* s restricted to the positions in idx, order kept
SelectSeqIdx(s, idx) ==
    IF s = <<>> THEN <<>>
    ELSE LET n == Len(s)
             rest == SelectSeqIdx(SubSeq(s, 1, n - 1), idx)
         IN IF n \in idx THEN Append(rest, s[n]) ELSE rest

\* Array.prototype.sort((a, b) => (b.rankingScore || 0) - (a.rankingScore || 0)):
\* a stable sort (ECMAScript 2019), descending by score.  Insertion of x after
\* every element whose score is not smaller keeps equal scores in input order.
ScoreKey(f) == OrZero(f.rankingScore)

RECURSIVE InsertByScore(_, _)
InsertByScore(sorted, x) ==
    IF sorted = <<>> THEN <<x>>
    ELSE IF ScoreKey(Head(sorted)) >= ScoreKey(x)
         THEN <<Head(sorted)>> \o InsertByScore(Tail(sorted), x)
         ELSE <<x>> \o sorted

RECURSIVE SortByScoreFrom(_, _)
SortByScoreFrom(acc, rest) ==
    IF rest = <<>> THEN acc
    ELSE SortByScoreFrom(InsertByScore(acc, Head(rest)), Tail(rest))

\* An unstable sort: equal scores come out reversed.
RECURSIVE InsertBeforeEqual(_, _)
InsertBeforeEqual(sorted, x) ==
    IF sorted = <<>> THEN <<x>>
    ELSE IF ScoreKey(Head(sorted)) > ScoreKey(x)
         THEN <<Head(sorted)>> \o InsertBeforeEqual(Tail(sorted), x)
         ELSE <<x>> \o sorted

RECURSIVE SortUnstableFrom(_, _)
SortUnstableFrom(acc, rest) ==
    IF rest = <<>> THEN acc
    ELSE SortUnstableFrom(InsertBeforeEqual(acc, Head(rest)), Tail(rest))

\* Mutant of SortByScoreDesc: the unstable sort.
SortByScoreDescUnstable(s) == SortUnstableFrom(<<>>, s)

SortByScoreDesc(s) == SortByScoreFrom(<<>>, s)

(***************************************************************************)
(* RankingEngine (src/src/ranking/ranking.engine.ts).  A component score   *)
(* is the rational num/den; w is the installed weights.                    *)
(***************************************************************************)
Prices(all) == [i \in 1..Len(all) |-> all[i].price]

Durations(all) == [i \in 1..Len(all) |-> all[i].duration]

StopCounts(all) == [i \in 1..Len(all) |-> all[i].stops]

\* Mutant of scorePriceComponent: min-max normalization without the inversion.
scorePriceComponentDirect(flight, all) ==
    LET minPrice == SeqMin(Prices(all))
        maxPrice == SeqMax(Prices(all))
    IN IF minPrice = maxPrice THEN [num |-> 100, den |-> 1]
       ELSE [num |-> 100 * (flight.price - minPrice), den |-> maxPrice - minPrice]

scorePriceComponent(flight, all) ==
    LET minPrice == SeqMin(Prices(all))
        maxPrice == SeqMax(Prices(all))
    IN IF minPrice = maxPrice THEN [num |-> 100, den |-> 1]
       ELSE [num |-> 100 * (maxPrice - flight.price), den |-> maxPrice - minPrice]

scoreDurationComponent(flight, all) ==
    LET minDuration == SeqMin(Durations(all))
        maxDuration == SeqMax(Durations(all))
    IN IF minDuration = maxDuration THEN [num |-> 100, den |-> 1]
       ELSE [num |-> 100 * (maxDuration - flight.duration),
             den |-> maxDuration - minDuration]

scoreStopsComponent(flight, all) ==
    LET maxStops == SeqMax(StopCounts(all))
    IN IF maxStops = 0 THEN [num |-> 100, den |-> 1]
       ELSE [num |-> 100 * (maxStops - flight.stops), den |-> maxStops]

\* Math.round(x * 100) / 100 of the weighted sum, in hundredths: with the weights
\* in hundredths, x * 100 is the sum of weight * component.
WeightedTotal(p, d, s, w) ==
    MathRound(w.price * p.num * d.den * s.den
                + w.duration * d.num * p.den * s.den
                + w.stops * s.num * p.den * d.den,
              p.den * d.den * s.den)

calculateScore(flight, all, w) ==
    WeightedTotal(scorePriceComponent(flight, all),
                  scoreDurationComponent(flight, all),
                  scoreStopsComponent(flight, all), w)

getScoreBreakdown(flight, all, w) ==
    LET p == scorePriceComponent(flight, all)
        d == scoreDurationComponent(flight, all)
        s == scoreStopsComponent(flight, all)
    IN [priceScore |-> MathRound(100 * p.num, p.den),
        durationScore |-> MathRound(100 * d.num, d.den),
        stopsScore |-> MathRound(100 * s.num, s.den),
        totalScore |-> WeightedTotal(p, d, s, w)]

Scored(flight, all, w) ==
    [flight EXCEPT !.rankingScore = Some(calculateScore(flight, all, w)),
                   !.scoreBreakdown = Some(getScoreBreakdown(flight, all, w))]


\* Mutant of rankFlights: an unstable sort (equal scores come out reversed).
rankFlightsUnstable(flights, w) ==
    IF Len(flights) = 0 THEN <<>>
    ELSE SortUnstableFrom(<<>>, [i \in 1..Len(flights) |-> Scored(flights[i], flights, w)])

rankFlights(flights, w) ==
    IF Len(flights) = 0 THEN <<>>
    ELSE SortByScoreDesc([i \in 1..Len(flights) |-> Scored(flights[i], flights, w)])

\* `x && ...` on an optional number: undefined and 0 are falsy
TruthyNumber(o) == o # None /\ o[1] # 0

\* criteria of filterFlights; airlines is <<>> or <<the allow-list>>
Criteria(maxPrice, maxStops, maxDuration, airlines) ==
    [maxPrice |-> maxPrice, maxStops |-> maxStops, maxDuration |-> maxDuration,
     airlines |-> airlines]

\* the callback of flights.filter in filterFlights
FilterKeeps(flight, criteria) ==
    IF TruthyNumber(criteria.maxPrice) /\ flight.price > criteria.maxPrice[1] THEN FALSE
    ELSE IF criteria.maxStops # None /\ flight.stops > criteria.maxStops[1] THEN FALSE
    ELSE IF TruthyNumber(criteria.maxDuration)
              /\ flight.duration > criteria.maxDuration[1] THEN FALSE
    ELSE IF criteria.airlines # None
              /\ flight.airlineCode \notin Range(criteria.airlines[1]) THEN FALSE
    ELSE TRUE

\* Mutant of filterFlights: a missing allow-list read as an empty one.
filterFlightsNoAirlines(flights, criteria) ==
    SelectSeqIdx(flights,
                 {i \in 1..Len(flights) :
                     /\ FilterKeeps(flights[i], criteria)
                     /\ flights[i].airlineCode
                          \in Range(IF criteria.airlines = None THEN <<>>
                                    ELSE criteria.airlines[1])})

filterFlights(flights, criteria) ==
    SelectSeqIdx(flights, {i \in 1..Len(flights) : FilterKeeps(flights[i], criteria)})

\* prices.sort((a, b) => a - b): ascending
RECURSIVE InsertAscending(_, _)
InsertAscending(sorted, x) ==
    IF sorted = <<>> THEN <<x>>
    ELSE IF Head(sorted) <= x
         THEN <<Head(sorted)>> \o InsertAscending(Tail(sorted), x)
         ELSE <<x>> \o sorted

RECURSIVE SortAscending(_)
SortAscending(s) ==
    IF s = <<>> THEN <<>>
    ELSE InsertAscending(SortAscending(SubSeq(s, 1, Len(s) - 1)), s[Len(s)])

\* prices.reduce((a, b) => a + b, 0)
RECURSIVE SeqSum(_)
SeqSum(s) == IF s = <<>> THEN 0 ELSE Head(s) + SeqSum(Tail(s))

\* Mutant of getPriceStats: the upper middle price taken for an even count.
getPriceStatsUpperMiddle(flights) ==
    IF Len(flights) = 0 THEN [min |-> 0, max |-> 0, average |-> 0, median |-> 0]
    ELSE LET prices == SortAscending(Prices(flights))
             n == Len(prices)
         IN [min |-> MathRound(100 * prices[1], 1),
             max |-> MathRound(100 * prices[n], 1),
             average |-> MathRound(100 * SeqSum(prices), n),
             median |-> MathRound(100 * prices[(n \div 2) + 1], 1)]

\* getPriceStats, each statistic Math.round(x * 100) / 100 in hundredths
getPriceStats(flights) ==
    IF Len(flights) = 0 THEN [min |-> 0, max |-> 0, average |-> 0, median |-> 0]
    ELSE LET prices == SortAscending(Prices(flights))
             n == Len(prices)
             median == IF n % 2 = 0
                       THEN [num |-> prices[n \div 2] + prices[(n \div 2) + 1], den |-> 2]
                       ELSE [num |-> prices[(n \div 2) + 1], den |-> 1]
         IN [min |-> MathRound(100 * prices[1], 1),
             max |-> MathRound(100 * prices[n], 1),
             average |-> MathRound(100 * SeqSum(prices), n),
             median |-> MathRound(100 * median.num, median.den)]

(***************************************************************************)
(* Offers.  departureTime/arrivalTime are minutes since local midnight;    *)
(* Date.getHours() is the hour of that instant.                            *)
(***************************************************************************)
Offer(id, provider, airlineCode, dep, arr, price, duration, stops, score) ==
    [id |-> id, provider |-> provider, airlineCode |-> airlineCode,
     departureAirport |-> "JFK", arrivalAirport |-> "LAX",
     departureTime |-> dep, arrivalTime |-> arr,
     price |-> price, duration |-> duration, stops |-> stops,
     rankingScore |-> score, scoreBreakdown |-> None]

getHours(t) == (t \div 60) % 24

(***************************************************************************)
(* FlightAggregatorService.deduplicateFlights / getFlightSignature.        *)
(***************************************************************************)
\* Mutant of getFlightSignature: the stop count is left out.
getFlightSignatureNoStops(flight) ==
    <<flight.departureAirport, flight.arrivalAirport, flight.airlineCode,
      getHours(flight.departureTime), getHours(flight.arrivalTime),
      MathRound(flight.price, 10)>>

getFlightSignature(flight) ==
    <<flight.departureAirport, flight.arrivalAirport, flight.airlineCode,
      getHours(flight.departureTime), getHours(flight.arrivalTime),
      MathRound(flight.price, 10), flight.stops>>

RECURSIVE DedupeFrom(_, _, _)
DedupeFrom(seen, deduped, sorted) ==
    IF sorted = <<>> THEN deduped
    ELSE LET flight == Head(sorted)
             signature == getFlightSignature(flight)
         IN IF signature \notin seen
            THEN DedupeFrom(seen \cup {signature}, Append(deduped, flight), Tail(sorted))
            ELSE DedupeFrom(seen, deduped, Tail(sorted))

\* Mutant of deduplicateFlights: the input is not sorted by score first.
deduplicateFlightsUnsorted(flights) == DedupeFrom({}, <<>>, flights)

deduplicateFlights(flights) == DedupeFrom({}, <<>>, SortByScoreDesc(flights))

(***************************************************************************)
(* Requests (FlightSearchParams) and the providers' behaviour.             *)
(***************************************************************************)
SearchParams(to, cabin, includeProviders) ==
    [from |-> "JFK", to |-> to, departDate |-> "2030-01-01", returnDate |-> None,
     passengers |-> Some(1), tripType |-> "one-way",
     cabin |-> cabin, includeProviders |-> includeProviders]

\* Three requests: two that differ only in fields the cache key leaves out (one of
\* them names a provider twice), and one for another destination that names an
\* unknown provider.
SearchRequests ==
    { SearchParams("LAX", Some("economy"), None),
      SearchParams("LAX", Some("business"), Some(<<"demo", "demo">>)),
      SearchParams("SFO", None, Some(<<"kiwi", "ghost">>)) }

\* Names registerProvider may add after construction.
LateProviders == {"kiwi"}

\* What provider.search may resolve with.
Catalogue(name) ==
    IF name = "demo"
    THEN << Offer("demo_1", "demo", "DL", 480, 690, 450, 210, 0, Some(0)),
            Offer("demo_2", "demo", "UA", 600, 855, 380, 255, 1, Some(0)) >>
    ELSE << Offer("kiwi_1", "kiwi", "DL", 485, 695, 450, 210, 0, None),
            Offer("kiwi_2", "kiwi", "B6", 1080, 1290, 480, 210, 0, None) >>

\* How a provider.search call may settle: resolved with offers, rejected with an
\* Error (whose message may be empty), or rejected with a value that is no Error.
SearchOutcomes(name) ==
    { [kind |-> "resolved", flights |-> Catalogue(name), message |-> ""],
      [kind |-> "resolved", flights |-> <<>>, message |-> ""],
      [kind |-> "threwError", flights |-> <<>>, message |-> "timeout of 10000ms exceeded"],
      [kind |-> "threwError", flights |-> <<>>, message |-> ""],
      [kind |-> "threwOther", flights |-> <<>>, message |-> ""] }

\* How provider.canHandle may answer.
CanHandleOutcomes == {"true", "false", "throws"}

(***************************************************************************)
(* FlightAggregatorService: pure parts.                                    *)
(***************************************************************************)
\* a JavaScript string or optional string used as a condition
Truthy(o) == o # None /\ o[1] # ""

\* Request of POST /api/flights/search as the controller builds it from the body.
EndpointParams(from, to, departDate, returnDate, passengers, tripType) ==
    [from |-> from, to |-> to, departDate |-> departDate, returnDate |-> returnDate,
     passengers |-> passengers, tripType |-> tripType,
     cabin |-> None, includeProviders |-> None]

\* String.prototype.length of the airport codes used here
StringLength(str) ==
    CASE str = "" -> 0
      [] str = "JF" -> 2
      [] str \in {"JFK", "LAX", "SFO", "J1K", "jfk"} -> 3
      [] str = "LAXX" -> 4

\* String.prototype.toUpperCase of the airport codes used here
ToUpperCase(str) == IF str = "jfk" THEN "JFK" ELSE str

\* new Date(str).getTime(), in seconds from 2030-01-01T00:00:00Z, the instant
\* now = 0.  A date-only ISO string is midnight UTC of that day; any other string
\* used here is an Invalid Date (NaN), <<>>.
DateParse(str) ==
    CASE str = "2029-12-31" -> Some(-86400)
      [] str = "2030-01-01" -> Some(0)
      [] str = "2030-01-02" -> Some(86400)
      [] str = "2030-01-03" -> Some(172800)
      [] OTHER -> None

\* a < b and a <= b on Dates: false when either is Invalid Date
DateLess(a, b) == a # None /\ b # None /\ a[1] < b[1]

DateLessOrEqual(a, b) == a # None /\ b # None /\ a[1] <= b[1]

\* errors.push(message) when the condition holds
PushIf(condition, message) == IF condition THEN <<message>> ELSE <<>>

\* Mutant of validateSearchParams: a return on the departure day is let through.
validateSearchParamsSameDay(q, time) ==
    LET errors ==
            PushIf(q.from = "" \/ StringLength(q.from) # 3,
                   "Invalid departure airport code")
         \o PushIf(q.to = "" \/ StringLength(q.to) # 3, "Invalid arrival airport code")
         \o (IF q.departDate = "" THEN <<"Departure date is required">>
             ELSE PushIf(DateLess(DateParse(q.departDate), Some(time)),
                         "Departure date cannot be in the past"))
         \o PushIf(q.tripType = "round-trip" /\ ~Truthy(q.returnDate),
                   "Return date is required for round-trip")
         \o PushIf(/\ q.tripType = "round-trip"
                   /\ Truthy(q.returnDate)
                   /\ DateLess(DateParse(q.returnDate[1]), DateParse(q.departDate)),
                   "Return date must be after departure date")
         \o PushIf(~TruthyNumber(q.passengers) \/ q.passengers[1] < 1
                       \/ q.passengers[1] > 9,
                   "Number of passengers must be between 1 and 9")
    IN [valid |-> Len(errors) = 0, errors |-> errors]

\* validateSearchParams(params), called when new Date() is the instant time
validateSearchParams(q, time) ==
    LET errors ==
            PushIf(q.from = "" \/ StringLength(q.from) # 3,
                   "Invalid departure airport code")
         \o PushIf(q.to = "" \/ StringLength(q.to) # 3, "Invalid arrival airport code")
         \o (IF q.departDate = "" THEN <<"Departure date is required">>
             ELSE PushIf(DateLess(DateParse(q.departDate), Some(time)),
                         "Departure date cannot be in the past"))
         \o PushIf(q.tripType = "round-trip" /\ ~Truthy(q.returnDate),
                   "Return date is required for round-trip")
         \o PushIf(/\ q.tripType = "round-trip"
                   /\ Truthy(q.returnDate)
                   /\ DateLessOrEqual(DateParse(q.returnDate[1]), DateParse(q.departDate)),
                   "Return date must be after departure date")
         \o PushIf(~TruthyNumber(q.passengers) \/ q.passengers[1] < 1
                       \/ q.passengers[1] > 9,
                   "Number of passengers must be between 1 and 9")
    IN [valid |-> Len(errors) = 0, errors |-> errors]

\* Bodies of POST /api/flights/search that pass the ValidationPipe (FlightSearchDto).
FlightSearchDtos ==
    { EndpointParams(from, "LAX", departDate, returnDate, Some(1), tripType) :
        from \in {"JFK", "jfk"},
        departDate \in {"2030-01-02", "2030-01-03"},
        returnDate \in {None, Some("2030-01-02"), Some("2030-01-03")},
        tripType \in {"one-way", "round-trip"} }

\* the params the controller builds from a body
ControllerParams(dto) ==
    [dto EXCEPT !.from = ToUpperCase(dto.from), !.to = ToUpperCase(dto.to)]

\* Arguments offered to validateSearchParams when it is called directly.
ValidateRequests ==
    { EndpointParams(from, to, departDate, returnDate, passengers, tripType) :
        from \in {"JFK", "JF", "J1K", ""},
        to \in {"LAX", "LAXX"},
        departDate \in {"", "2029-12-31", "2030-01-01", "2030-01-02", "someday"},
        returnDate \in {None, Some(""), Some("2030-01-01"), Some("2030-01-02"),
                        Some("2030-01-03")},
        passengers \in {None, Some(0), Some(1), Some(9), Some(10)},
        tripType \in {"one-way", "round-trip"} }

generateCacheKey(q) ==
    "flight_search:" \o q.from \o ":" \o q.to \o ":" \o q.departDate \o ":"
        \o (IF Truthy(q.returnDate) THEN q.returnDate[1] ELSE "oneway") \o ":"
        \o (IF q.passengers = None THEN "undefined" ELSE ToString(q.passengers[1]))
        \o ":" \o q.tripType

CacheKeys ==
    {generateCacheKey(q) :
        q \in SearchRequests \cup {ControllerParams(dto) : dto \in FlightSearchDtos}}

Has(provs, name) == \E i \in 1..Len(provs) : provs[i] = name

selectProviders(q, provs) ==
    IF q.includeProviders # None /\ Len(q.includeProviders[1]) > 0
    THEN LET wanted == q.includeProviders[1]
         IN SelectSeqIdx(wanted, {i \in 1..Len(wanted) : Has(provs, wanted[i])})
    ELSE provs

\* registerProvider: Map.set keeps the position of a name already present
registerProviderName(provs, name) ==
    IF Has(provs, name) THEN provs ELSE Append(provs, name)


\* Mutant of queryProviderStart: the answer of canHandle is not looked at.
queryProviderStartAlways(name, provs, canHandle) ==
    IF ~Has(provs, name)
    THEN [state |-> "fulfilled", flights |-> <<>>,
          error |-> Some("Provider " \o name \o " not found"),
          branch |-> "notFound", invoked |-> FALSE, failed |-> FALSE]
    ELSE [state |-> "pending", flights |-> <<>>, error |-> None,
          branch |-> IF canHandle = "false" THEN "cannotHandle" ELSE "searched",
          invoked |-> TRUE, failed |-> FALSE]

\* queryProvider up to its first await: the lookup and canHandle run at dispatch.
\* branch names the path taken and invoked says whether provider.search was called.
queryProviderStart(name, provs, canHandle) ==
    IF ~Has(provs, name)
    THEN [state |-> "fulfilled", flights |-> <<>>,
          error |-> Some("Provider " \o name \o " not found"),
          branch |-> "notFound", invoked |-> FALSE, failed |-> FALSE]
    ELSE IF canHandle = "throws"
    THEN [state |-> "rejected", flights |-> <<>>,
          error |-> Some("canHandle failed"),
          branch |-> "canHandleThrew", invoked |-> FALSE, failed |-> FALSE]
    ELSE IF canHandle = "false"
    THEN [state |-> "fulfilled", flights |-> <<>>,
          error |-> Some("Provider " \o name \o " cannot handle this search"),
          branch |-> "cannotHandle", invoked |-> FALSE, failed |-> FALSE]
    ELSE [state |-> "pending", flights |-> <<>>, error |-> None,
          branch |-> "searched", invoked |-> TRUE, failed |-> FALSE]

\* queryProvider from the await on: the try/catch around provider.search.
\* failed says whether the search call threw or rejected.
queryProviderSettle(outcome) ==
    IF outcome.kind = "resolved"
    THEN [state |-> "fulfilled", flights |-> outcome.flights, error |-> None,
          branch |-> "searched", invoked |-> TRUE, failed |-> FALSE]
    ELSE [state |-> "fulfilled", flights |-> <<>>,
          error |-> IF outcome.kind = "threwError"
                    THEN Some(outcome.message) ELSE Some("Unknown error"),
          branch |-> "searched", invoked |-> TRUE, failed |-> TRUE]

\* results.forEach: one ProviderStatus per settled promise
ProviderStatusOf(name, task, resultTime) ==
    IF task.state = "fulfilled"
    THEN [name |-> name,
          status |-> IF Truthy(task.error) THEN "error" ELSE "success",
          resultsCount |-> Len(task.flights),
          error |-> task.error,
          responseTime |-> resultTime]
    ELSE [name |-> name,
          status |-> "error",
          resultsCount |-> 0,
          error |-> IF Truthy(task.error) THEN task.error ELSE Some("Unknown error"),
          responseTime |-> resultTime]

ProviderStatuses(names, ts, resultTime) ==
    [i \in 1..Len(names) |-> ProviderStatusOf(names[i], ts[i], resultTime)]

AggregatedFlights(ts) ==
    Concat([i \in 1..Len(ts) |->
              IF ts[i].state = "fulfilled" /\ Len(ts[i].flights) > 0
              THEN ts[i].flights ELSE <<>>])


\* Mutant of OverallStatus: one success is enough for `success`.
OverallStatusAnySuccess(statuses) ==
    IF \E i \in 1..Len(statuses) : statuses[i].status = "success" THEN "success"
    ELSE "error"

OverallStatus(statuses) ==
    IF \A i \in 1..Len(statuses) : statuses[i].status = "success" THEN "success"
    ELSE IF \E i \in 1..Len(statuses) : statuses[i].status = "success" THEN "partial"
    ELSE "error"


\* Mutant of NoProvidersResult: the empty selection reported as a success.
NoProvidersResultSuccess(q, time) ==
    [status |-> "success", query |-> q, flights |-> <<>>, totalResults |-> 0,
     providersQueried |-> <<>>, timestamp |-> time, cacheHit |-> FALSE]

\* the result of the short-circuit when no provider is selected
NoProvidersResult(q, time) ==
    [status |-> "error", query |-> q, flights |-> <<>>, totalResults |-> 0,
     providersQueried |-> <<>>, timestamp |-> time, cacheHit |-> FALSE]

\* Mutant of SearchResultOf: the combined offers are ranked without deduplication.
SearchResultOfNoDedupe(q, names, ts, w, start, time) ==
    LET providerStatuses == ProviderStatuses(names, ts, time - start)
        rankedFlights == rankFlights(AggregatedFlights(ts), w)
    IN [status |-> OverallStatus(providerStatuses), query |-> q,
        flights |-> rankedFlights, totalResults |-> Len(rankedFlights),
        providersQueried |-> providerStatuses, timestamp |-> time,
        cacheHit |-> FALSE]

\* the result assembled after the fan-out has settled
SearchResultOf(q, names, ts, w, start, time) ==
    LET providerStatuses == ProviderStatuses(names, ts, time - start)
        rankedFlights == rankFlights(deduplicateFlights(AggregatedFlights(ts)), w)
    IN [status |-> OverallStatus(providerStatuses), query |-> q,
        flights |-> rankedFlights, totalResults |-> Len(rankedFlights),
        providersQueried |-> providerStatuses, timestamp |-> time,
        cacheHit |-> FALSE]

(***************************************************************************)
(* JSON.stringify / JSON.parse of a FlightSearchResult.  A property whose  *)
(* value is undefined is left out of the text; read back, it is undefined  *)
(* again.  The text is the record of the properties that remain.           *)
(***************************************************************************)
QueryOptional == {"returnDate", "passengers", "cabin", "includeProviders"}

StatusOptional == {"error"}

FlightOptional == {"rankingScore", "scoreBreakdown"}

ToJson(r, optional) ==
    [k \in {kk \in DOMAIN r : kk \notin optional \/ r[kk] # None} |->
        IF k \in optional THEN r[k][1] ELSE r[k]]

FromJson(j, optional, keys) ==
    [k \in keys |->
        IF k \in optional
        THEN (IF k \in DOMAIN j THEN Some(j[k]) ELSE None)
        ELSE j[k]]

QueryKeys == {"from", "to", "departDate", "tripType"} \cup QueryOptional

StatusKeys == {"name", "status", "resultsCount", "responseTime"} \cup StatusOptional

FlightKeys ==
    {"id", "provider", "airlineCode", "departureAirport", "arrivalAirport",
     "departureTime", "arrivalTime", "price", "duration", "stops"} \cup FlightOptional

JSONStringify(res) ==
    [status |-> res.status,
     query |-> ToJson(res.query, QueryOptional),
     flights |-> [i \in 1..Len(res.flights) |-> ToJson(res.flights[i], FlightOptional)],
     totalResults |-> res.totalResults,
     providersQueried |->
        [i \in 1..Len(res.providersQueried) |->
            ToJson(res.providersQueried[i], StatusOptional)],
     timestamp |-> res.timestamp,
     cacheHit |-> res.cacheHit]

JSONParse(text) ==
    [status |-> text.status,
     query |-> FromJson(text.query, QueryOptional, QueryKeys),
     flights |-> [i \in 1..Len(text.flights) |->
                    FromJson(text.flights[i], FlightOptional, FlightKeys)],
     totalResults |-> text.totalResults,
     providersQueried |->
        [i \in 1..Len(text.providersQueried) |->
            FromJson(text.providersQueried[i], StatusOptional, StatusKeys)],
     timestamp |-> text.timestamp,
     cacheHit |-> text.cacheHit]

(***************************************************************************)
(* CacheService (src/unnamed/part_002).  issued: the service was connected *)
(* when the operation was called, so the Redis command was sent; fails:    *)
(* the command, or the parsing of its reply, throws.  threw: an error      *)
(* leaves the operation.                                                   *)
(***************************************************************************)
Live(store, key, time) == store[key] # None /\ time < store[key][1].expiresAt


\* Mutant of CacheServiceGet: no try/catch around the Redis command.
CacheServiceGetNoCatch(store, key, time, issued, fails) ==
    IF ~issued THEN [threw |-> FALSE, value |-> None]
    ELSE IF fails THEN [threw |-> TRUE, value |-> None]
    ELSE [threw |-> FALSE,
          value |-> IF Live(store, key, time)
                    THEN Some(JSONParse(store[key][1].value)) ELSE None]

CacheServiceGet(store, key, time, issued, fails) ==
    IF ~issued THEN [threw |-> FALSE, value |-> None]
    ELSE IF fails THEN [threw |-> FALSE, value |-> None]
    ELSE [threw |-> FALSE,
          value |-> IF Live(store, key, time)
                    THEN Some(JSONParse(store[key][1].value)) ELSE None]


\* Mutant of CacheServiceSet: the TTL handed to Redis in milliseconds.
CacheServiceSetMillis(store, key, text, ttlSeconds, time, issued, fails) ==
    IF ~issued THEN [threw |-> FALSE, store |-> store]
    ELSE IF fails THEN [threw |-> FALSE, store |-> store]
    ELSE [threw |-> FALSE,
          store |-> [store EXCEPT
                        ![key] = Some([value |-> text,
                                       expiresAt |-> time + 1000 * ttlSeconds])]]

\* Mutant of CacheServiceSet: no try/catch around the Redis command.
CacheServiceSetNoCatch(store, key, text, ttlSeconds, time, issued, fails) ==
    IF ~issued THEN [threw |-> FALSE, store |-> store]
    ELSE IF fails THEN [threw |-> TRUE, store |-> store]
    ELSE [threw |-> FALSE,
          store |-> [store EXCEPT
                        ![key] = Some([value |-> text,
                                       expiresAt |-> time + ttlSeconds])]]

\* Mutant of CacheServiceSet: an entry already present keeps its expiry.
CacheServiceSetKeepsExpiry(store, key, text, ttlSeconds, time, issued, fails) ==
    IF ~issued THEN [threw |-> FALSE, store |-> store]
    ELSE IF fails THEN [threw |-> FALSE, store |-> store]
    ELSE [threw |-> FALSE,
          store |-> [store EXCEPT
                        ![key] = Some([value |-> text,
                                       expiresAt |-> IF store[key] # None
                                                     THEN store[key][1].expiresAt
                                                     ELSE time + ttlSeconds])]]

CacheServiceSet(store, key, text, ttlSeconds, time, issued, fails) ==
    IF ~issued THEN [threw |-> FALSE, store |-> store]
    ELSE IF fails THEN [threw |-> FALSE, store |-> store]
    ELSE [threw |-> FALSE,
          store |-> [store EXCEPT
                        ![key] = Some([value |-> text,
                                       expiresAt |-> time + ttlSeconds])]]

CacheServiceDelete(store, key, issued, fails) ==
    IF ~issued THEN [threw |-> FALSE, store |-> store]
    ELSE IF fails THEN [threw |-> FALSE, store |-> store]
    ELSE [threw |-> FALSE, store |-> [store EXCEPT ![key] = None]]


\* Mutant of CacheHitResult: the cached payload returned as stored.
CacheHitResultAsStored(cachedResult) == JSONParse(JSONStringify(cachedResult))

\* the cache-hit return of searchFlights
CacheHitResult(cachedResult) ==
    [JSONParse(JSONStringify(cachedResult)) EXCEPT !.cacheHit = TRUE]

(***************************************************************************)
(* Ranking harness: rankFlights and setWeights called on the singleton     *)
(* engine with lists drawn from a pool of offers.  The pool is the spec's  *)
(* example population (prices 450/380/520/340/480) plus a twin of the      *)
(* first offer, so that equal scores occur.                                *)
(***************************************************************************)
OfferPool ==
    { Offer("demo_1", "demo", "DL", 480, 690, 450, 210, 0, Some(0)),
      Offer("demo_2", "demo", "UA", 600, 855, 380, 255, 1, Some(0)),
      Offer("demo_3", "demo", "AA", 840, 1035, 520, 195, 0, Some(0)),
      Offer("demo_4", "demo", "SW", 960, 1215, 340, 255, 1, Some(0)),
      Offer("kiwi_1", "kiwi", "DL", 485, 695, 450, 210, 0, None),
      Offer("kiwi_2", "kiwi", "B6", 1080, 1290, 480, 210, 0, None) }

SeqsUpTo(S, n) == UNION {[1..k -> S] : k \in 0..n}

DefaultWeights ==
    [price |-> DefaultPriceWeight, duration |-> DefaultDurationWeight,
     stops |-> DefaultStopsWeight]

\* Arguments offered to setWeights, in hundredths.
WeightChoices ==
    { <<60, 25, 15>>, <<0, 0, 100>>, <<50, 30, 30>>, <<150, -25, -25>>,
      <<50, 50, 1>>, <<60, 29, 12>> }

Calls == 1..MaxConcurrent

IdleCalls == [c \in Calls |-> "idle"]

PipelineIdle ==
    /\ providers = <<"demo">>
    /\ redisInit = "connecting"
    /\ isConnected = FALSE
    /\ redis = [k \in CacheKeys |-> None]
    /\ now = 0
    /\ nCalls = 0
    /\ pc = IdleCalls
    /\ params = [c \in Calls |-> None]
    /\ startTime = [c \in Calls |-> 0]
    /\ getIssued = [c \in Calls |-> FALSE]
    /\ toQuery = [c \in Calls |-> <<>>]
    /\ tasks = [c \in Calls |-> <<>>]
    /\ settledAt = [c \in Calls |-> <<>>]
    /\ result = [c \in Calls |-> None]
    /\ path = [c \in Calls |-> "none"]
    /\ pendingSet = [c \in Calls |-> None]
    /\ endpointParams = None
    /\ validation = None
    /\ response = "none"
    /\ dedupeInput = <<>>
    /\ dedupeOutput = None
    /\ dedupeAgain = None
    /\ selectParams = None
    /\ selectOutput = None
    /\ keyParams = None
    /\ keyOutput = None

RankInit ==
    /\ PipelineIdle
    /\ weights = DefaultWeights
    /\ rankInput \in SeqsUpTo(OfferPool, MaxFlights)
    /\ rankOutput = None
    /\ rankWeights = DefaultWeights
    /\ prevOutput = None
    /\ prevWeights = DefaultWeights
    /\ weightsCall = None
    /\ filterCriteria = None
    /\ filterOutput = None
    /\ priceStats = None

\* rankingEngine.rankFlights(rankInput)
RankFlightsCall ==
    /\ rankOutput' = Some(rankFlights(rankInput, weights))
    /\ rankWeights' = weights
    /\ prevOutput' = rankOutput
    /\ prevWeights' = rankWeights
    /\ UNCHANGED <<weights, rankInput, weightsCall>>
    /\ UNCHANGED toolVars
    /\ UNCHANGED pipelineVars

\* Boundary arguments (a sum of 0.99 or 1.01) for which the double arithmetic of
\* `total - 1.0` lands outside the tolerance: 0.5 + 0.5 + 0.01 is the double 1.01,
\* and 1.01 - 1.0 evaluates to 0.010000000000000009, above the double 0.01.
\* (0.6 + 0.29 + 0.12 evaluates to 1.0099999999999998 and stays inside.)
RoundsOutside == { <<50, 50, 1>> }

\* Math.abs(total - 1.0) > 0.01 as the doubles evaluate it.  Off the boundary the
\* result is that of exact arithmetic.
ToleranceExceeded(p, d, s) ==
    \/ Abs(p + d + s - 100) > WeightTolerance
    \/ Abs(p + d + s - 100) = WeightTolerance /\ <<p, d, s>> \in RoundsOutside

\* rankingEngine.setWeights(p, d, s): throws, changing nothing, when the sum is
\* off 1.0 by more than the tolerance.
setWeights(p, d, s) ==
    /\ weights' = IF ToleranceExceeded(p, d, s)
                  THEN weights
                  ELSE [price |-> p, duration |-> d, stops |-> s]
    /\ weightsCall' = Some([priceWeight |-> p, durationWeight |-> d, stopsWeight |-> s,
                            threw |-> ToleranceExceeded(p, d, s)])
    /\ UNCHANGED harnessVars
    /\ UNCHANGED pipelineVars

SetWeightsCall == \E t \in WeightChoices : setWeights(t[1], t[2], t[3])

RankNext == RankFlightsCall \/ SetWeightsCall

RankSpec == RankInit /\ [][RankNext]_vars

(***************************************************************************)
(* FilterSpec: filterFlights and getPriceStats applied to lists drawn from *)
(* the pool.                                                               *)
(***************************************************************************)
\* Criteria offered to filterFlights: each unset, 0 (or the empty list), or a value
\* that splits the pool.
CriteriaChoices ==
    { Criteria(maxPrice, maxStops, maxDuration, airlines) :
        maxPrice \in {None, Some(0), Some(450)},
        maxStops \in {None, Some(0)},
        maxDuration \in {None, Some(0), Some(210)},
        airlines \in {None, Some(<<>>), Some(<<"DL", "UA">>)} }

\* rankingEngine.filterFlights(rankInput, criteria)
FilterFlightsCall ==
    /\ \E criteria \in CriteriaChoices :
          /\ filterCriteria' = Some(criteria)
          /\ filterOutput' = Some(filterFlights(rankInput, criteria))
    /\ UNCHANGED <<weights, rankInput, rankOutput, rankWeights, prevOutput, prevWeights,
                   weightsCall, priceStats>>
    /\ UNCHANGED pipelineVars

\* rankingEngine.getPriceStats(rankInput)
GetPriceStatsCall ==
    /\ priceStats' = Some(getPriceStats(rankInput))
    /\ UNCHANGED <<weights, rankInput, rankOutput, rankWeights, prevOutput, prevWeights,
                   weightsCall, filterCriteria, filterOutput>>
    /\ UNCHANGED pipelineVars

FilterNext == FilterFlightsCall \/ GetPriceStatsCall

FilterSpec == RankInit /\ [][FilterNext]_vars

(***************************************************************************)
(* The pipeline: searchFlights calls in flight, the providers, the cache   *)
(* and the clock.  A call is at "cacheGet" while it awaits                 *)
(* cacheService.get, at "fanout" while it awaits Promise.allSettled, at    *)
(* "cacheSet" while it awaits cacheService.set, and "done" once it has     *)
(* returned; "rejected" would be a call that failed as a whole.            *)
(***************************************************************************)
Free(c) == pc[c] \in {"idle", "done", "rejected"}

KeyOf(c) == generateCacheKey(params[c][1])

Init ==
    /\ providers = <<"demo">>
    /\ redisInit \in {"disabled", "connecting"}
    /\ isConnected = FALSE
    /\ redis = [k \in CacheKeys |-> None]
    /\ now = 0
    /\ nCalls = 0
    /\ pc = IdleCalls
    /\ params = [c \in Calls |-> None]
    /\ startTime = [c \in Calls |-> 0]
    /\ getIssued = [c \in Calls |-> FALSE]
    /\ toQuery = [c \in Calls |-> <<>>]
    /\ tasks = [c \in Calls |-> <<>>]
    /\ settledAt = [c \in Calls |-> <<>>]
    /\ result = [c \in Calls |-> None]
    /\ path = [c \in Calls |-> "none"]
    /\ pendingSet = [c \in Calls |-> None]
    /\ endpointParams = None
    /\ validation = None
    /\ response = "none"
    /\ dedupeInput = <<>>
    /\ dedupeOutput = None
    /\ dedupeAgain = None
    /\ selectParams = None
    /\ selectOutput = None
    /\ keyParams = None
    /\ keyOutput = None
    /\ weights = DefaultWeights
    /\ rankInput = <<>>
    /\ rankOutput = None
    /\ rankWeights = DefaultWeights
    /\ prevOutput = None
    /\ prevWeights = DefaultWeights
    /\ weightsCall = None
    /\ filterCriteria = None
    /\ filterOutput = None
    /\ priceStats = None

engineVars == <<weights, rankInput, rankOutput, rankWeights, prevOutput, prevWeights,
                weightsCall, filterCriteria, filterOutput, priceStats,
                dedupeInput, dedupeOutput, dedupeAgain, selectParams, selectOutput,
                keyParams, keyOutput>>

\* initializeRedis: redisClient.connect() resolves or rejects
RedisConnectSettle ==
    /\ redisInit = "connecting"
    /\ redisInit' = "settled"
    /\ isConnected' \in BOOLEAN
    /\ UNCHANGED <<providers, redis, now, nCalls, pc, params, startTime, getIssued,
                   toQuery, tasks, settledAt, result, path, pendingSet>>
    /\ UNCHANGED engineVars
    /\ UNCHANGED endpointVars

\* cacheService.disconnect(): redisClient.quit() resolves
disconnect ==
    /\ isConnected
    /\ isConnected' = FALSE
    /\ UNCHANGED <<providers, redisInit, redis, now, nCalls, pc, params, startTime,
                   getIssued, toQuery, tasks, settledAt, result, path, pendingSet>>
    /\ UNCHANGED engineVars
    /\ UNCHANGED endpointVars

registerProvider(name) ==
    /\ ~Has(providers, name)
    /\ providers' = registerProviderName(providers, name)
    /\ UNCHANGED <<redisInit, isConnected, redis, now, nCalls, pc, params, startTime,
                   getIssued, toQuery, tasks, settledAt, result, path, pendingSet>>
    /\ UNCHANGED engineVars
    /\ UNCHANGED endpointVars

Tick ==
    /\ now < MaxTicks * TickSeconds
    /\ now' = now + TickSeconds
    /\ UNCHANGED <<providers, redisInit, isConnected, redis, nCalls, pc, params,
                   startTime, getIssued, toQuery, tasks, settledAt, result, path, pendingSet>>
    /\ UNCHANGED engineVars
    /\ UNCHANGED endpointVars

\* cacheService.delete(key)
CacheDelete(key) ==
    /\ redis[key] # None
    /\ \E fails \in BOOLEAN :
          redis' = CacheServiceDelete(redis, key, isConnected, fails).store
    /\ UNCHANGED <<providers, redisInit, isConnected, now, nCalls, pc, params,
                   startTime, getIssued, toQuery, tasks, settledAt, result, path, pendingSet>>
    /\ UNCHANGED engineVars
    /\ UNCHANGED endpointVars

\* searchFlights(q) up to the await on cacheService.get, in the lowest free slot
searchFlightsEnter(c, q, maxCalls) ==
    /\ nCalls < maxCalls
    /\ Free(c)
    /\ \A d \in Calls : d < c => ~Free(d)
    /\ nCalls' = nCalls + 1
    /\ pc' = [pc EXCEPT ![c] = "cacheGet"]
    /\ params' = [params EXCEPT ![c] = Some(q)]
    /\ startTime' = [startTime EXCEPT ![c] = now]
    /\ getIssued' = [getIssued EXCEPT ![c] = isConnected]
    /\ toQuery' = [toQuery EXCEPT ![c] = <<>>]
    /\ tasks' = [tasks EXCEPT ![c] = <<>>]
    /\ settledAt' = [settledAt EXCEPT ![c] = <<>>]
    /\ result' = [result EXCEPT ![c] = None]
    /\ path' = [path EXCEPT ![c] = "none"]
    /\ pendingSet' = [pendingSet EXCEPT ![c] = None]
    /\ UNCHANGED <<providers, redisInit, isConnected, redis, now>>
    /\ UNCHANGED engineVars

\* flightAggregatorService.searchFlights(q) called directly
SearchFlightsCall(c, q, maxCalls) ==
    /\ searchFlightsEnter(c, q, maxCalls)
    /\ UNCHANGED endpointVars

\* cacheService.get settles; on a miss searchFlights runs on to the await on
\* Promise.allSettled, or returns at once when no provider is selected.
\* canHandles: the answers provider.canHandle may give.
CacheGetSettle(c, canHandles) ==
    /\ pc[c] = "cacheGet"
    /\ \E fails \in (IF getIssued[c] THEN BOOLEAN ELSE {FALSE}) :
        LET q == params[c][1]
            got == CacheServiceGet(redis, KeyOf(c), now, getIssued[c], fails)
            providersToQuery == selectProviders(q, providers)
        IN IF got.threw
           THEN /\ pc' = [pc EXCEPT ![c] = "rejected"]
                /\ UNCHANGED <<toQuery, tasks, settledAt, result, path>>
           ELSE IF got.value # None
           THEN /\ pc' = [pc EXCEPT ![c] = "done"]
                /\ result' = [result EXCEPT ![c] = Some(CacheHitResult(got.value[1]))]
                /\ path' = [path EXCEPT ![c] = "hit"]
                /\ UNCHANGED <<toQuery, tasks, settledAt>>
           ELSE IF Len(providersToQuery) = 0
           THEN /\ pc' = [pc EXCEPT ![c] = "done"]
                /\ result' = [result EXCEPT ![c] = Some(NoProvidersResult(q, now))]
                /\ path' = [path EXCEPT ![c] = "empty"]
                /\ UNCHANGED <<toQuery, tasks, settledAt>>
           ELSE /\ pc' = [pc EXCEPT ![c] = "fanout"]
                /\ toQuery' = [toQuery EXCEPT ![c] = providersToQuery]
                /\ \E canHandle \in [1..Len(providersToQuery) -> canHandles] :
                      LET started == [i \in 1..Len(providersToQuery) |->
                                        queryProviderStart(providersToQuery[i], providers,
                                                           canHandle[i])]
                      IN /\ tasks' = [tasks EXCEPT ![c] = started]
                         /\ settledAt' = [settledAt EXCEPT ![c] =
                                [i \in 1..Len(providersToQuery) |->
                                    IF started[i].state = "pending" THEN None
                                    ELSE Some(now)]]
                /\ UNCHANGED <<result, path>>
    /\ UNCHANGED <<providers, redisInit, isConnected, redis, now, nCalls, params,
                   startTime, getIssued, pendingSet>>
    /\ UNCHANGED engineVars
    /\ UNCHANGED endpointVars

\* one provider.search call settles, in one of the ways in outcomes
ProviderSettle(c, i, outcomes) ==
    /\ pc[c] = "fanout"
    /\ i \in 1..Len(tasks[c])
    /\ tasks[c][i].state = "pending"
    /\ \E outcome \in SearchOutcomes(toQuery[c][i]) \cap outcomes :
          tasks' = [tasks EXCEPT ![c][i] = queryProviderSettle(outcome)]
    /\ settledAt' = [settledAt EXCEPT ![c][i] = Some(now)]
    /\ UNCHANGED <<providers, redisInit, isConnected, redis, now, nCalls, pc, params,
                   startTime, getIssued, toQuery, result, path, pendingSet>>
    /\ UNCHANGED engineVars
    /\ UNCHANGED endpointVars

\* Mutant of AllSettled: the first settlement is enough (Promise.race / Promise.any).
AnySettled(c) == \E i \in 1..Len(tasks[c]) : tasks[c][i].state # "pending"

AllSettled(c) == \A i \in 1..Len(tasks[c]) : tasks[c][i].state # "pending"

\* Mutant of FanOutSettled: a result of status `error` is not handed to the cache.
FanOutSettledErrorsUncached(c) ==
    /\ pc[c] = "fanout"
    /\ AllSettled(c)
    /\ LET searchResult == SearchResultOf(params[c][1], toQuery[c], tasks[c], weights,
                                          startTime[c], now)
           cacheData == [searchResult EXCEPT !.cacheHit = FALSE]
       IN /\ result' = [result EXCEPT ![c] = Some(searchResult)]
          /\ pendingSet' = [pendingSet EXCEPT ![c] =
                              IF isConnected /\ searchResult.status # "error"
                              THEN Some(JSONStringify(cacheData)) ELSE None]
    /\ pc' = [pc EXCEPT ![c] = "cacheSet"]
    /\ UNCHANGED <<providers, redisInit, isConnected, redis, now, nCalls, params,
                   startTime, getIssued, toQuery, tasks, settledAt, path>>
    /\ UNCHANGED engineVars
    /\ UNCHANGED endpointVars

\* Promise.allSettled resolves: searchFlights runs on to the await on cacheService.set
FanOutSettled(c) ==
    /\ pc[c] = "fanout"
    /\ AllSettled(c)
    /\ LET searchResult == SearchResultOf(params[c][1], toQuery[c], tasks[c], weights,
                                          startTime[c], now)
           cacheData == [searchResult EXCEPT !.cacheHit = FALSE]
       IN /\ result' = [result EXCEPT ![c] = Some(searchResult)]
          /\ pendingSet' = [pendingSet EXCEPT ![c] =
                              IF isConnected THEN Some(JSONStringify(cacheData)) ELSE None]
    /\ pc' = [pc EXCEPT ![c] = "cacheSet"]
    /\ UNCHANGED <<providers, redisInit, isConnected, redis, now, nCalls, params,
                   startTime, getIssued, toQuery, tasks, settledAt, path>>
    /\ UNCHANGED engineVars
    /\ UNCHANGED endpointVars

\* cacheService.set settles and searchFlights returns searchResult
CacheSetSettle(c) ==
    /\ pc[c] = "cacheSet"
    /\ \E fails \in (IF pendingSet[c] # None THEN BOOLEAN ELSE {FALSE}) :
        LET put == CacheServiceSet(redis, KeyOf(c),
                                   IF pendingSet[c] # None THEN pendingSet[c][1] ELSE None,
                                   CacheTtlSeconds, now, pendingSet[c] # None, fails)
        IN /\ redis' = put.store
           /\ pc' = [pc EXCEPT ![c] = IF put.threw THEN "rejected" ELSE "done"]
    /\ path' = [path EXCEPT ![c] = "miss"]
    /\ pendingSet' = [pendingSet EXCEPT ![c] = None]
    /\ UNCHANGED <<providers, redisInit, isConnected, now, nCalls, params, startTime,
                   getIssued, toQuery, tasks, settledAt, result>>
    /\ UNCHANGED engineVars
    /\ UNCHANGED endpointVars

MaxQueried == 2     \* the longest providersToQuery of SearchRequests

ProviderNames == {"demo"} \cup LateProviders

AllOutcomes == UNION {SearchOutcomes(name) : name \in ProviderNames}

(***************************************************************************)
(* Spec: one searchFlights call at a time, with every behaviour of the     *)
(* providers and of the cache.                                             *)
(***************************************************************************)
Next ==
    \/ RedisConnectSettle
    \/ disconnect
    \/ \E name \in LateProviders : registerProvider(name)
    \/ Tick
    \/ \E key \in CacheKeys : CacheDelete(key)
    \/ \E q \in SearchRequests : SearchFlightsCall(1, q, MaxCalls)
    \/ CacheGetSettle(1, CanHandleOutcomes)
    \/ \E i \in 1..MaxQueried : ProviderSettle(1, i, AllOutcomes)
    \/ FanOutSettled(1)
    \/ CacheSetSettle(1)

Spec == Init /\ [][Next]_vars

\* The step FanOutSettled(c) as it shows on pc: the continuation of searchFlights
\* after Promise.allSettled. Within Next only FanOutSettled(c) takes such a step.
FanOutReturns(c) ==
    /\ pc[c] = "fanout"
    /\ AllSettled(c)
    /\ pc' = [pc EXCEPT ![c] = "cacheSet"]

\* Every dispatched provider call and every cache operation eventually settles,
\* and the microtasks that resume searchFlights run.
Fairness ==
    /\ WF_vars(CacheGetSettle(1, CanHandleOutcomes))
    /\ \A i \in 1..MaxQueried : WF_vars(ProviderSettle(1, i, AllOutcomes))
    /\ WF_pc(FanOutReturns(1))
    /\ WF_vars(CacheSetSettle(1))

FairSpec == Spec /\ Fairness

(***************************************************************************)
(* CacheSpec: several searchFlights calls, one after another, against the  *)
(* cache; every provider can handle every request and a search resolves    *)
(* with its offers or rejects with an Error that has a message.            *)
(***************************************************************************)
MaxCacheCalls == 2   \* searchFlights calls per behaviour of CacheSpec

CacheOutcomes ==
    {o \in AllOutcomes : \/ o.kind = "resolved" /\ o.flights # <<>>
                         \/ o.kind = "threwError" /\ o.message # ""}

CacheNext ==
    \/ RedisConnectSettle
    \/ disconnect
    \/ \E name \in LateProviders : registerProvider(name)
    \/ Tick
    \/ \E key \in CacheKeys : CacheDelete(key)
    \/ \E q \in SearchRequests : SearchFlightsCall(1, q, MaxCacheCalls)
    \/ CacheGetSettle(1, {"true"})
    \/ \E i \in 1..MaxQueried : ProviderSettle(1, i, CacheOutcomes)
    \/ FanOutSettled(1)
    \/ CacheSetSettle(1)

CacheSpec == Init /\ [][CacheNext]_vars

(***************************************************************************)
(* EndpointSpec: POST /api/flights/search in front of the pipeline, one    *)
(* request reaching searchFlights, and validateSearchParams called         *)
(* directly.                                                               *)
(***************************************************************************)
MaxEndpointCalls == 1

\* FlightSearchController.searchFlights(dto): BadRequestException when the
\* validation fails, else the call of flightAggregatorService.searchFlights
SearchEndpoint(c, dto, maxCalls) ==
    LET q == ControllerParams(dto)
        checked == validateSearchParams(q, now)
    IN /\ endpointParams' = Some(q)
       /\ validation' = Some(checked)
       /\ IF ~checked.valid
          THEN /\ response' = "BadRequest"
               /\ UNCHANGED <<providers, redisInit, isConnected, redis, now, nCalls, pc,
                              params, startTime, getIssued, toQuery, tasks, settledAt, result,
                              path, pendingSet>>
               /\ UNCHANGED engineVars
          ELSE /\ response' = "searching"
               /\ searchFlightsEnter(c, q, maxCalls)

\* flightAggregatorService.validateSearchParams(q), once in a behaviour
ValidateCall ==
    /\ validation = None
    /\ \E q \in ValidateRequests :
          /\ endpointParams' = Some(q)
          /\ validation' = Some(validateSearchParams(q, now))
    /\ UNCHANGED <<providers, redisInit, isConnected, redis, now, nCalls, pc, params,
                   startTime, getIssued, toQuery, tasks, settledAt, result, path, pendingSet,
                   response>>
    /\ UNCHANGED engineVars

EndpointNext ==
    \/ RedisConnectSettle
    \/ Tick
    \/ ValidateCall
    \/ \E dto \in FlightSearchDtos : SearchEndpoint(1, dto, MaxEndpointCalls)
    \/ CacheGetSettle(1, {"true"})
    \/ \E i \in 1..MaxQueried : ProviderSettle(1, i, CacheOutcomes)
    \/ FanOutSettled(1)
    \/ CacheSetSettle(1)

EndpointSpec == Init /\ [][EndpointNext]_vars

(***************************************************************************)
(* DedupeSpec: deduplicateFlights called on lists drawn from a pool of     *)
(* offers, and once more on its own output.  The pool holds one class of   *)
(* four offers with scores 80, 90, none and 80 (prices 450, 454, 445 and   *)
(* 450: all in bucket 45), and offers that differ from it in one field of  *)
(* the signature: the price bucket (455), the stop count, the arrival      *)
(* airport.                                                                *)
(***************************************************************************)
MaxDedupe == 3       \* length of the lists handed to deduplicateFlights

DedupePool ==
    { Offer("demo_1", "demo", "DL", 480, 690, 450, 210, 0, Some(80)),
      Offer("kiwi_1", "kiwi", "DL", 485, 695, 454, 210, 0, Some(90)),
      Offer("amadeus_1", "amadeus", "DL", 539, 719, 445, 210, 0, None),
      Offer("duffel_1", "duffel", "DL", 500, 700, 450, 200, 0, Some(80)),
      Offer("demo_2", "demo", "DL", 480, 690, 455, 210, 0, Some(80)),
      Offer("demo_3", "demo", "DL", 480, 690, 450, 210, 1, Some(-50)),
      [Offer("demo_4", "demo", "DL", 480, 690, 450, 210, 0, None)
          EXCEPT !.arrivalAirport = "SFO"] }

\* deduplicateFlights(flights), once in a behaviour
DeduplicateFlightsCall ==
    /\ dedupeOutput = None
    /\ \E flights \in SeqsUpTo(DedupePool, MaxDedupe) :
          /\ dedupeInput' = flights
          /\ dedupeOutput' = Some(deduplicateFlights(flights))
    /\ UNCHANGED <<dedupeAgain, selectParams, selectOutput, keyParams, keyOutput>>
    /\ UNCHANGED <<providers, redisInit, isConnected, redis, now, nCalls, pc, params,
                   startTime, getIssued, toQuery, tasks, settledAt, result, path, pendingSet>>
    /\ UNCHANGED <<weights, weightsCall>>
    /\ UNCHANGED harnessVars
    /\ UNCHANGED endpointVars

\* deduplicateFlights(dedupeOutput)
DeduplicateAgainCall ==
    /\ dedupeOutput # None
    /\ dedupeAgain = None
    /\ dedupeAgain' = Some(deduplicateFlights(dedupeOutput[1]))
    /\ UNCHANGED <<dedupeInput, dedupeOutput, selectParams, selectOutput, keyParams,
                   keyOutput>>
    /\ UNCHANGED <<providers, redisInit, isConnected, redis, now, nCalls, pc, params,
                   startTime, getIssued, toQuery, tasks, settledAt, result, path, pendingSet>>
    /\ UNCHANGED <<weights, weightsCall>>
    /\ UNCHANGED harnessVars
    /\ UNCHANGED endpointVars

DedupeNext == DeduplicateFlightsCall \/ DeduplicateAgainCall

DedupeSpec == Init /\ [][DedupeNext]_vars

(***************************************************************************)
(* SelectSpec: selectProviders called for requests with and without a      *)
(* provider subset, against a registry that grows by registerProvider.     *)
(***************************************************************************)
\* Names registerProvider adds in SelectSpec.
SelectNames == {"kiwi", "amadeus", "duffel"}

\* Requests that differ in includeProviders: absent, empty, registered names,
\* unknown names, a name listed twice.
SelectRequests ==
    { SearchParams("LAX", None, includeProviders) :
        includeProviders \in { None, Some(<<>>), Some(<<"demo">>), Some(<<"ghost">>),
                               Some(<<"kiwi", "demo">>), Some(<<"demo", "demo">>),
                               Some(<<"duffel", "ghost", "amadeus">>) } }

\* this.selectProviders(q)
SelectProvidersCall ==
    /\ \E q \in SelectRequests :
          /\ selectParams' = Some(q)
          /\ selectOutput' = Some(selectProviders(q, providers))
    /\ UNCHANGED <<dedupeInput, dedupeOutput, dedupeAgain, keyParams, keyOutput>>
    /\ UNCHANGED <<providers, redisInit, isConnected, redis, now, nCalls, pc, params,
                   startTime, getIssued, toQuery, tasks, settledAt, result, path, pendingSet>>
    /\ UNCHANGED <<weights, weightsCall>>
    /\ UNCHANGED harnessVars
    /\ UNCHANGED endpointVars

SelectNext ==
    \/ \E name \in SelectNames : registerProvider(name)
    \/ SelectProvidersCall

SelectSpec == Init /\ [][SelectNext]_vars

(***************************************************************************)
(* KeySpec: generateCacheKey called for two requests.                      *)
(***************************************************************************)
PassengerBreakdown(adults, children, infants) ==
    [adults |-> adults, children |-> children, infants |-> infants]

\* Requests that differ in the fields the key is built from, in the passenger
\* breakdown, and in the preferences (cabin, maxPrice, airlines, includeProviders).
KeyRequests ==
    { [from |-> "JFK", to |-> to, departDate |-> "2030-01-02", returnDate |-> returnDate,
       passengers |-> passengers, passengerBreakdown |-> passengerBreakdown,
       tripType |-> tripType, cabin |-> preferences.cabin,
       maxPrice |-> preferences.maxPrice, airlines |-> preferences.airlines,
       includeProviders |-> preferences.includeProviders] :
        to \in {"LAX", "SFO"},
        returnDate \in {None, Some("2030-01-03")},
        passengers \in {None, Some(1), Some(2)},
        passengerBreakdown \in {None, Some(PassengerBreakdown(1, 0, 0)),
                                Some(PassengerBreakdown(1, 1, 0))},
        tripType \in {"one-way", "round-trip"},
        preferences \in { [cabin |-> None, maxPrice |-> None, airlines |-> None,
                           includeProviders |-> None],
                          [cabin |-> Some("business"), maxPrice |-> Some(500),
                           airlines |-> Some(<<"DL">>),
                           includeProviders |-> Some(<<"demo">>)] } }

\* the total passenger count of a request, as the providers read it
TotalPassengers(q) ==
    IF q.passengerBreakdown # None
    THEN q.passengerBreakdown[1].adults + q.passengerBreakdown[1].children
             + q.passengerBreakdown[1].infants
    ELSE IF q.passengers # None THEN q.passengers[1] ELSE 1

\* this.generateCacheKey(q1) and this.generateCacheKey(q2), once in a behaviour
GenerateCacheKeyCall ==
    /\ keyOutput = None
    /\ \E q1, q2 \in KeyRequests :
          /\ keyParams' = Some(<<q1, q2>>)
          /\ keyOutput' = Some(<<generateCacheKey(q1), generateCacheKey(q2)>>)
    /\ UNCHANGED <<dedupeInput, dedupeOutput, dedupeAgain, selectParams, selectOutput>>
    /\ UNCHANGED <<providers, redisInit, isConnected, redis, now, nCalls, pc, params,
                   startTime, getIssued, toQuery, tasks, settledAt, result, path, pendingSet>>
    /\ UNCHANGED <<weights, weightsCall>>
    /\ UNCHANGED harnessVars
    /\ UNCHANGED endpointVars

KeyNext == GenerateCacheKeyCall \/ Tick

KeySpec == Init /\ [][KeyNext]_vars

(***************************************************************************)
(* OverlapSpec: searchFlights calls that overlap, for requests that derive *)
(* one cache key, with the provider's search resolving with its offers or  *)
(* rejecting with an Error that has a message.                             *)
(***************************************************************************)
MaxOverlapCalls == 3   \* searchFlights calls per behaviour of OverlapSpec

\* the request of the n-th call: the second differs from the others in the cabin
OverlapRequest(n) ==
    SearchParams("LAX", IF n = 2 THEN Some("business") ELSE Some("economy"), None)

OverlapNext ==
    \/ RedisConnectSettle
    \/ Tick
    \/ \E c \in Calls : SearchFlightsCall(c, OverlapRequest(nCalls + 1), MaxOverlapCalls)
    \/ \E c \in Calls : CacheGetSettle(c, {"true"})
    \/ \E c \in Calls, i \in 1..MaxQueried : ProviderSettle(c, i, CacheOutcomes)
    \/ \E c \in Calls : FanOutSettled(c)
    \/ \E c \in Calls : CacheSetSettle(c)

OverlapSpec == Init /\ [][OverlapNext]_vars

(***************************************************************************)
(* Claims.                                                                 *)
(***************************************************************************)
MissReturned(c) == pc[c] = "done" /\ path[c] = "miss"

HitReturned(c) == pc[c] = "done" /\ path[c] = "hit"

EmptyReturned(c) == pc[c] = "done" /\ path[c] = "empty"

\* the provider's search call was made and resolved
Succeeded(task) == task.branch = "searched" /\ task.state = "fulfilled" /\ ~task.failed

SuccessCount(statuses) ==
    Cardinality({i \in 1..Len(statuses) : statuses[i].status = "success"})

\* C1: a call that queried at least one provider returns `success` exactly when
\* every provider status is success, `partial` exactly when some but not all are,
\* and `error` exactly when none is.
C1_StatusFromProviderStatuses ==
    \A c \in Calls :
        MissReturned(c) =>
            LET r == result[c][1]
                n == Len(r.providersQueried)
                ok == SuccessCount(r.providersQueried)
            IN /\ n >= 1
               /\ r.status \in {"success", "partial", "error"}
               /\ r.status = "success" <=> ok = n
               /\ r.status = "partial" <=> (0 < ok /\ ok < n)
               /\ r.status = "error" <=> ok = 0

\* two providers queried, one success and one error, and the result is partial
C1_Witness ==
    /\ MissReturned(1)
    /\ Len(result[1][1].providersQueried) = 2
    /\ SuccessCount(result[1][1].providersQueried) = 1
    /\ result[1][1].status = "partial"

\* C2: a provider whose search call threw or rejected is reported with status
\* `error`, resultsCount 0 and a non-empty error message; when one queried
\* provider fails and another succeeds the result is `partial`, has one status per
\* queried provider and no more flights than the succeeding providers returned.
C2_FailedSearchIsError ==
    \A c \in Calls :
        MissReturned(c) =>
            LET r == result[c][1]
                st == r.providersQueried
                ts == tasks[c]
                good == {i \in 1..Len(ts) : Succeeded(ts[i])}
            IN /\ \A i \in 1..Len(ts) :
                      ts[i].failed => /\ st[i].status = "error"
                                      /\ st[i].resultsCount = 0
                                      /\ Truthy(st[i].error)
               /\ ((\E i \in 1..Len(ts) : ts[i].failed) /\ good # {}) =>
                      /\ r.status = "partial"
                      /\ Len(st) = Len(toQuery[c])
                      /\ Len(r.flights) <= Len(AggregatedFlights(SelectSeqIdx(ts, good)))

\* C3: the searchFlights call returns a result and never fails as a whole,
\* whichever providers fail and whether or not the cache works, given that every
\* provider call and every cache operation settles.
C3_EveryCallReturns ==
    /\ [](\A c \in Calls : pc[c] # "rejected")
    /\ (pc[1] \in {"cacheGet", "fanout", "cacheSet"}) ~> (pc[1] = "done")

\* a call has returned although every provider search failed and the cache write
\* was attempted
C3_Witness ==
    /\ MissReturned(1)
    /\ getIssued[1]
    /\ Len(tasks[1]) = 2
    /\ \A i \in 1..2 : tasks[1][i].failed
    /\ result[1] # None

\* C4: providersQueried holds exactly one status per queried provider, no name
\* twice, and no provider's search is invoked more than once in a call.
C4_OneStatusPerProvider ==
    \A c \in Calls :
        /\ \A name \in Range(toQuery[c]) :
              Cardinality({i \in 1..Len(tasks[c]) :
                              toQuery[c][i] = name /\ tasks[c][i].invoked}) <= 1
        /\ MissReturned(c) =>
              LET st == result[c][1].providersQueried
              IN /\ \A i, j \in 1..Len(st) : st[i].name = st[j].name => i = j
                 /\ {st[i].name : i \in 1..Len(st)} = Range(toQuery[c])

\* C5: with an empty selection after a cache miss, searchFlights returns status
\* `error`, no flights, totalResults 0, no provider statuses and cacheHit false,
\* invokes no provider and leaves the cache as it was (so the key is still absent
\* for the next identical request).
C5_EmptySelection ==
    [][\A c \in Calls :
          (pc[c] = "cacheGet" /\ pc'[c] = "done" /\ path'[c] = "empty") =>
              /\ selectProviders(params[c][1], providers) = <<>>
              /\ result'[c][1].status = "error"
              /\ result'[c][1].flights = <<>>
              /\ result'[c][1].totalResults = 0
              /\ result'[c][1].providersQueried = <<>>
              /\ result'[c][1].cacheHit = FALSE
              /\ tasks'[c] = <<>>
              /\ redis' = redis]_vars

\* the second of two calls has returned from an empty selection, with the cache
\* connected and still holding nothing under the key
C5_Witness ==
    /\ EmptyReturned(1)
    /\ nCalls = 2
    /\ getIssued[1]
    /\ redis[KeyOf(1)] = None
    /\ result[1][1].status = "error"

\* C6: a call that reads a live entry returns the stored result, equal in every
\* field (status, flights, totalResults, providersQueried, timestamp) except
\* cacheHit, which is true; it invokes no provider and writes nothing.
C6_CacheRoundTrip ==
    [][\A c \in Calls :
          (pc[c] = "cacheGet" /\ pc'[c] = "done" /\ path'[c] = "hit") =>
              /\ Live(redis, KeyOf(c), now)
              /\ JSONStringify(result'[c][1])
                   = [redis[KeyOf(c)][1].value EXCEPT !.cacheHit = TRUE]
              /\ redis[KeyOf(c)][1].value.cacheHit = FALSE
              /\ tasks'[c] = <<>>
              /\ redis' = redis]_vars

\* a hit returned after the clock moved on: the timestamp is the stored one
C6_Witness ==
    /\ HitReturned(1)
    /\ result[1][1].cacheHit
    /\ result[1][1].timestamp < now
    /\ result[1][1].timestamp < startTime[1]
    /\ Len(result[1][1].flights) > 0

\* C7: every entry searchFlights writes has a TTL of 600 seconds and cacheHit
\* false in the stored copy; a result returned from the miss path has cacheHit
\* false, and cacheHit true is returned only by the cache-read path.
C7_WritesAndFlags ==
    [][/\ \A key \in CacheKeys :
            (redis'[key] # redis[key] /\ redis'[key] # None) =>
                /\ redis'[key][1].expiresAt = now + 600
                /\ redis'[key][1].value.cacheHit = FALSE
       /\ \A c \in Calls :
            pc'[c] = "done" =>
                (result'[c][1].cacheHit <=> path'[c] = "hit")]_vars

\* a miss has just been written and returned
C7_Witness ==
    /\ MissReturned(1)
    /\ redis[KeyOf(1)] # None
    /\ redis[KeyOf(1)][1].value.timestamp = result[1][1].timestamp
    /\ redis[KeyOf(1)][1].expiresAt = now + 600
    /\ result[1][1].cacheHit = FALSE

\* C8: with the cache disabled, not connected or failing, get is a miss, set and
\* delete change nothing, no call fails, and the call returns the status, flights
\* and provider statuses of an ordinary miss.
C8_CacheFailureAbsorbed ==
    /\ [](\A c \in Calls :
            /\ pc[c] # "rejected"
            /\ (pc[c] = "done" /\ ~getIssued[c]) => path[c] # "hit"
            /\ MissReturned(c) =>
                  LET r == result[c][1]
                      expected == SearchResultOf(params[c][1], toQuery[c], tasks[c],
                                                 DefaultWeights, startTime[c],
                                                 r.timestamp)
                  IN /\ r.status = expected.status
                     /\ r.flights = expected.flights
                     /\ r.providersQueried = expected.providersQueried)
    /\ [][/\ \A c \in Calls :
                (pc[c] = "cacheSet" /\ pc'[c] # "cacheSet" /\ pendingSet[c] = None)
                    => redis' = redis
          /\ (~isConnected /\ pc' = pc) => redis' = redis]_vars

\* the cache holds a live entry for the key, but the service was not connected
\* when the call was made: the call took the miss path and returned offers
C8_Witness ==
    /\ MissReturned(1)
    /\ ~getIssued[1]
    /\ Live(redis, KeyOf(1), startTime[1])
    /\ result[1][1].status = "success"
    /\ Len(result[1][1].flights) > 0

\* C9: for a queried provider that cannot handle the request, or is not
\* registered, search is never invoked and its status is `error` with
\* resultsCount 0 and an error message; the other providers are still queried and
\* their offers returned.
C9_CannotHandleIsSkipped ==
    \A c \in Calls :
        /\ \A i \in 1..Len(tasks[c]) :
              /\ tasks[c][i].branch \in {"cannotHandle", "notFound"} =>
                    /\ ~tasks[c][i].invoked
                    /\ tasks[c][i].state = "fulfilled"
              /\ tasks[c][i].branch = "searched" => tasks[c][i].invoked
        /\ MissReturned(c) =>
              LET r == result[c][1]
                  st == r.providersQueried
                  ts == tasks[c]
              IN \A i \in 1..Len(ts) :
                    /\ ts[i].branch \in {"cannotHandle", "notFound"} =>
                          /\ st[i].name = toQuery[c][i]
                          /\ st[i].status = "error"
                          /\ st[i].resultsCount = 0
                          /\ Truthy(st[i].error)
                    /\ Succeeded(ts[i]) =>
                          \A k \in 1..Len(ts[i].flights) :
                              \E f \in Range(r.flights) :
                                  getFlightSignature(f) = getFlightSignature(ts[i].flights[k])

\* of two queried providers one cannot handle the request and the other's offers
\* are returned
C9_Witness ==
    /\ MissReturned(1)
    /\ Len(tasks[1]) = 2
    /\ tasks[1][1].branch = "cannotHandle"
    /\ Succeeded(tasks[1][2])
    /\ Len(result[1][1].flights) = 2
    /\ result[1][1].providersQueried[1].status = "error"
    /\ result[1][1].providersQueried[2].status = "success"

Perms(n) == {f \in [1..n -> 1..n] : \A i, j \in 1..n : f[i] = f[j] => i = j}

\* out is input reordered by perm, each offer unchanged but for its two annotations
ReorderedBy(perm, input, out) ==
    \A j \in 1..Len(out) :
        /\ out[j].rankingScore # None
        /\ out[j].scoreBreakdown # None
        /\ out[j].id = input[perm[j]].id
        /\ [out[j] EXCEPT !.rankingScore = input[perm[j]].rankingScore,
                          !.scoreBreakdown = input[perm[j]].scoreBreakdown]
             = input[perm[j]]

\* scores never increase along out, and equal scores keep their input order
DescendingStable(perm, out) ==
    \A i, j \in 1..Len(out) :
        i < j => \/ out[i].rankingScore[1] > out[j].rankingScore[1]
                 \/ /\ out[i].rankingScore[1] = out[j].rankingScore[1]
                    /\ perm[i] < perm[j]

\* C10: rankFlights returns a permutation of its input (same length, same offers by
\* id, each annotated with a score and a breakdown), in non-increasing order of
\* rankingScore with equal scores in input order; ranking the ranked list again, or
\* the same input again under the same weights, gives the same scores and order.
C10_RankIsStablePermutation ==
    rankOutput # None =>
        LET out == rankOutput[1]
        IN /\ Len(out) = Len(rankInput)
           /\ \E perm \in Perms(Len(out)) :
                  /\ ReorderedBy(perm, rankInput, out)
                  /\ DescendingStable(perm, out)
           /\ rankFlights(out, rankWeights) = out
           /\ (prevOutput # None /\ prevWeights = rankWeights) => prevOutput = rankOutput

\* a ranked list of three whose order differs from the input's, with one tie and
\* one strict descent, ranked twice under the same weights
C10_Witness ==
    /\ rankOutput # None
    /\ prevOutput # None
    /\ prevWeights = rankWeights
    /\ Len(rankOutput[1]) = 3
    /\ \E i \in 1..3 : rankOutput[1][i].id # rankInput[i].id
    /\ rankOutput[1][1].rankingScore = rankOutput[1][2].rankingScore
    /\ rankOutput[1][2].rankingScore[1] > rankOutput[1][3].rankingScore[1]

\* the component score, in hundredths, the inverted min-max rule gives value v in
\* the population values vs
InvertedMinMax(v, vs) ==
    LET lo == SeqMin(vs)
        hi == SeqMax(vs)
    IN IF lo = hi THEN 10000 ELSE MathRound(10000 * (hi - v), hi - lo)

\* C11: the price and the duration component of an offer are the inverted min-max
\* normalization over the population passed to rankFlights: the lowest value
\* scores 100, the highest 0, values in between linearly, and every offer scores
\* 100 when all share the value.
C11_PriceDurationMinMax ==
    rankOutput # None =>
        \A i \in 1..Len(rankOutput[1]) :
            LET f == rankOutput[1][i]
                b == f.scoreBreakdown[1]
                p == scorePriceComponent(f, rankInput)
                d == scoreDurationComponent(f, rankInput)
            IN /\ b.priceScore = InvertedMinMax(f.price, Prices(rankInput))
               /\ b.durationScore = InvertedMinMax(f.duration, Durations(rankInput))
               /\ f.price = SeqMin(Prices(rankInput)) => b.priceScore = 10000
               /\ (f.price = SeqMax(Prices(rankInput))
                     /\ SeqMin(Prices(rankInput)) # f.price) => b.priceScore = 0
               /\ f.duration = SeqMin(Durations(rankInput)) => b.durationScore = 10000
               /\ (f.duration = SeqMax(Durations(rankInput))
                     /\ SeqMin(Durations(rankInput)) # f.duration) => b.durationScore = 0
               /\ p.num * (SeqMax(Prices(rankInput)) - SeqMin(Prices(rankInput)))
                    = 100 * p.den * (SeqMax(Prices(rankInput)) - f.price)
                  \/ SeqMax(Prices(rankInput)) = SeqMin(Prices(rankInput))
               /\ d.num * (SeqMax(Durations(rankInput)) - SeqMin(Durations(rankInput)))
                    = 100 * d.den * (SeqMax(Durations(rankInput)) - f.duration)
                  \/ SeqMax(Durations(rankInput)) = SeqMin(Durations(rankInput))

\* three offers ranked: one scores 100 on price, one 0 and one strictly in
\* between; the shortest scores 100 on duration and the longest 0
C11_Witness ==
    /\ rankOutput # None
    /\ Len(rankOutput[1]) = 3
    /\ \E i, j, k \in 1..3 :
          /\ rankOutput[1][i].scoreBreakdown[1].priceScore = 10000
          /\ rankOutput[1][j].scoreBreakdown[1].priceScore = 0
          /\ rankOutput[1][k].scoreBreakdown[1].priceScore \in 1..9999
    /\ \E i, j \in 1..3 :
          /\ rankOutput[1][i].duration < rankOutput[1][j].duration
          /\ rankOutput[1][i].scoreBreakdown[1].durationScore = 10000
          /\ rankOutput[1][j].scoreBreakdown[1].durationScore = 0

\* C12: the stops component is min-max normalized over the population passed in:
\* the offer with the fewest stops scores 100, the one with the most scores 0, and
\* every offer scores 100 when all have the same stop count, whatever the count.
C12_StopsMinMax ==
    rankOutput # None =>
        \A i \in 1..Len(rankOutput[1]) :
            LET f == rankOutput[1][i]
            IN f.scoreBreakdown[1].stopsScore
                 = InvertedMinMax(f.stops, StopCounts(rankInput))

\* C13: after any sequence of setWeights and rankFlights calls, every rankingScore,
\* every score-breakdown component and every breakdown totalScore that rankFlights
\* produces lies in 0..100.
C13_ScoresWithinRange ==
    rankOutput # None =>
        \A i \in 1..Len(rankOutput[1]) :
            LET f == rankOutput[1][i]
                b == f.scoreBreakdown[1]
            IN /\ f.rankingScore[1] \in 0..10000
               /\ b.priceScore \in 0..10000
               /\ b.durationScore \in 0..10000
               /\ b.stopsScore \in 0..10000
               /\ b.totalScore \in 0..10000

NoCriteria == Criteria(None, None, None, None)

\* C15: filterFlights with no criterion set returns every input offer, in input
\* order and with unchanged content.
C15_NoCriteriaIsIdentity ==
    (filterCriteria # None /\ filterCriteria[1] = NoCriteria) =>
        filterOutput = Some(rankInput)

\* three offers filtered with no criterion set
C15_Witness ==
    /\ filterCriteria = Some(NoCriteria)
    /\ Len(rankInput) = 3
    /\ filterOutput = Some(rankInput)
    /\ \E i, j \in 1..3 : rankInput[i].airlineCode # rankInput[j].airlineCode

\* an offer satisfies every criterion that is set
Satisfies(flight, criteria) ==
    /\ criteria.maxPrice # None => flight.price <= criteria.maxPrice[1]
    /\ criteria.maxStops # None => flight.stops <= criteria.maxStops[1]
    /\ criteria.maxDuration # None => flight.duration <= criteria.maxDuration[1]
    /\ criteria.airlines # None => flight.airlineCode \in Range(criteria.airlines[1])

\* C16: filterFlights returns, in input order, exactly the offers that satisfy
\* every criterion that is set, for every combination of set and unset criteria
\* and every value of a set criterion, 0 and the empty allow-list included.
C16_FilterIsConjunction ==
    filterCriteria # None =>
        filterOutput
          = Some(SelectSeqIdx(rankInput,
                              {i \in 1..Len(rankInput) :
                                  Satisfies(rankInput[i], filterCriteria[1])}))

\* the k-th smallest of the values vs, by rank
KthSmallest(vs, k) ==
    CHOOSE v \in Range(vs) :
        /\ Cardinality({i \in 1..Len(vs) : vs[i] < v}) < k
        /\ k <= Cardinality({i \in 1..Len(vs) : vs[i] <= v})

\* C17: getPriceStats returns all zeros for an empty list; otherwise the smallest
\* price, the largest price, the arithmetic mean and the median (middle element
\* for an odd count, mean of the two middle elements for an even count), each to
\* 2 decimals, so that min <= median <= max and min <= average <= max.
C17_PriceStats ==
    priceStats # None =>
        LET st == priceStats[1]
            prices == Prices(rankInput)
            n == Len(prices)
        IN IF n = 0
           THEN st = [min |-> 0, max |-> 0, average |-> 0, median |-> 0]
           ELSE /\ st.min = 100 * SeqMin(prices)
                /\ st.max = 100 * SeqMax(prices)
                /\ st.average = MathRound(100 * SeqSum(prices), n)
                /\ st.median
                     = IF n % 2 = 1
                       THEN 100 * KthSmallest(prices, (n + 1) \div 2)
                       ELSE MathRound(100 * (KthSmallest(prices, n \div 2)
                                               + KthSmallest(prices, (n \div 2) + 1)), 2)
                /\ st.min <= st.median /\ st.median <= st.max
                /\ st.min <= st.average /\ st.average <= st.max

\* statistics of two offers with different prices: the median is their mean
C17_Witness ==
    /\ priceStats # None
    /\ Len(rankInput) = 2
    /\ rankInput[1].price > rankInput[2].price
    /\ priceStats[1].min = 100 * rankInput[2].price
    /\ priceStats[1].max = 100 * rankInput[1].price
    /\ priceStats[1].min < priceStats[1].median
    /\ priceStats[1].median < priceStats[1].max

\* C20: every result searchFlights(r) returns, on the miss path and on the
\* cache-hit path alike, carries the request r of that call as its query,
\* whatever earlier requests populated the cache.
C20_QueryIsRequest ==
    \A c \in Calls :
        (pc[c] = "done" /\ result[c] # None) => result[c][1].query = params[c][1]

ReturnDateError == "Return date must be after departure date"

\* a round-trip request whose return date is not strictly after its departure date
ReturnNotAfterDeparture(q) ==
    /\ q.tripType = "round-trip"
    /\ Truthy(q.returnDate)
    /\ DateParse(q.returnDate[1]) # None
    /\ DateParse(q.departDate) # None
    /\ DateParse(q.returnDate[1])[1] <= DateParse(q.departDate)[1]

\* C18: for a round-trip request whose return date is not strictly after its
\* departure date, validateSearchParams returns valid = false with the error
\* "Return date must be after departure date", and the search endpoint rejects
\* the request without calling searchFlights: no cache access, no provider call.
C18_ReturnBeforeDepartureRejected ==
    /\ []((validation # None /\ ReturnNotAfterDeparture(endpointParams[1])) =>
            /\ ~validation[1].valid
            /\ ReturnDateError \in Range(validation[1].errors))
    /\ [][(/\ response' # "none"
           /\ endpointVars' # endpointVars
           /\ ReturnNotAfterDeparture(endpointParams'[1])) =>
              /\ response' = "BadRequest"
              /\ nCalls' = nCalls
              /\ pc' = pc
              /\ params' = params
              /\ getIssued' = getIssued
              /\ redis' = redis
              /\ tasks' = tasks
              /\ pendingSet' = pendingSet]_vars

\* the endpoint has rejected a round-trip request returning on the departure day,
\* for that reason alone, and no call of searchFlights was made
C18_Witness ==
    /\ response = "BadRequest"
    /\ endpointParams[1].tripType = "round-trip"
    /\ endpointParams[1].returnDate = Some(endpointParams[1].departDate)
    /\ validation[1].errors = <<ReturnDateError>>
    /\ nCalls = 0
    /\ pc = IdleCalls

\* the strings of the requests modelled that consist of exactly three letters
ThreeLetters(str) == str \in {"JFK", "LAX", "SFO", "jfk"}

\* the date strings of the request are empty or calendar dates
DatesReadable(q) ==
    /\ q.departDate = "" \/ DateParse(q.departDate) # None
    /\ q.returnDate = None \/ q.returnDate[1] = "" \/ DateParse(q.returnDate[1]) # None

\* the departure date is present and is the current day (starting at instant 0) or later
DepartureAcceptable(q) == q.departDate # "" /\ DateParse(q.departDate)[1] >= 0

ReturnPresent(q) == Truthy(q.returnDate)

ReturnAfterDeparture(q) ==
    q.departDate # "" => DateParse(q.returnDate[1])[1] > DateParse(q.departDate)[1]

PassengersAcceptable(q) ==
    q.passengers # None /\ q.passengers[1] >= 1 /\ q.passengers[1] <= 9

ConstraintsHold(q) ==
    /\ ThreeLetters(q.from)
    /\ ThreeLetters(q.to)
    /\ DepartureAcceptable(q)
    /\ q.tripType = "round-trip" => ReturnPresent(q) /\ ReturnAfterDeparture(q)
    /\ PassengersAcceptable(q)

\* C19: validateSearchParams returns valid = true exactly when origin and
\* destination are each exactly 3 letters, a departure date is present and is
\* not in the past (the current day or later is not reported as past), a
\* round-trip request has a return date strictly after the departure date, and
\* the passenger count is within 1..9; valid is true iff the errors list is
\* empty, and each violated constraint contributes its own error.
C19_ValidExactlyWhenConstraintsHold ==
    (validation # None /\ DatesReadable(endpointParams[1])) =>
        LET q == endpointParams[1]
            v == validation[1]
            reported == Range(v.errors)
        IN /\ v.valid <=> ConstraintsHold(q)
           /\ v.valid <=> v.errors = <<>>
           /\ ~ThreeLetters(q.from) => "Invalid departure airport code" \in reported
           /\ ~ThreeLetters(q.to) => "Invalid arrival airport code" \in reported
           /\ q.departDate = "" => "Departure date is required" \in reported
           /\ (q.departDate # "" /\ ~DepartureAcceptable(q)) =>
                  "Departure date cannot be in the past" \in reported
           /\ (q.tripType = "round-trip" /\ ~ReturnPresent(q)) =>
                  "Return date is required for round-trip" \in reported
           /\ (q.tripType = "round-trip" /\ ReturnPresent(q) /\ ~ReturnAfterDeparture(q)) =>
                  ReturnDateError \in reported
           /\ ~PassengersAcceptable(q) =>
                  "Number of passengers must be between 1 and 9" \in reported

\* round(price / 10): the k with 10k - 5 <= price < 10k + 5
PriceBucket(price) == CHOOSE k \in 0..1000 : 10 * k - 5 <= price /\ price < 10 * k + 5

\* the clock hour of an instant given in minutes since midnight
ClockHour(t) == CHOOSE h \in 0..23 : \E d \in 0..6 : 60 * (24 * d + h) <= t /\ t < 60 * (24 * d + h + 1)

\* the equivalence of the claims on deduplication
SameFlight(a, b) ==
    /\ a.departureAirport = b.departureAirport
    /\ a.arrivalAirport = b.arrivalAirport
    /\ a.airlineCode = b.airlineCode
    /\ ClockHour(a.departureTime) = ClockHour(b.departureTime)
    /\ ClockHour(a.arrivalTime) = ClockHour(b.arrivalTime)
    /\ a.stops = b.stops
    /\ PriceBucket(a.price) = PriceBucket(b.price)

\* how often x occurs in s
Occurrences(s, x) == Cardinality({i \in 1..Len(s) : s[i] = x})

C28_DedupeIdempotent == dedupeAgain # None => dedupeAgain = dedupeOutput

\* deduplicateFlights has been applied to its own output, which has two offers of
\* equal score and is shorter than the input
C28_Witness ==
    /\ dedupeAgain # None
    /\ Len(dedupeOutput[1]) < Len(dedupeInput)
    /\ \E i, j \in 1..Len(dedupeOutput[1]) :
          /\ i # j
          /\ ScoreKey(dedupeOutput[1][i]) = ScoreKey(dedupeOutput[1][j])

\* the pre-existing score of the offer at position k of the input, missing as 0
ScoreAt(k) ==
    IF dedupeInput[k].rankingScore = None THEN 0 ELSE dedupeInput[k].rankingScore[1]

\* position a of the input goes before position b: higher score, or equal score
\* and earlier in the input
GoesBefore(a, b) == ScoreAt(a) > ScoreAt(b) \/ (ScoreAt(a) = ScoreAt(b) /\ a < b)

\* the positions of the input that go before every other position of their class
Representatives ==
    {k \in 1..Len(dedupeInput) :
        \A m \in 1..Len(dedupeInput) :
            (m # k /\ SameFlight(dedupeInput[m], dedupeInput[k])) => GoesBefore(k, m)}

\* C29: within each equivalence class deduplicateFlights keeps the offer with the
\* highest pre-existing rankingScore (a missing score counts as 0) and, among
\* offers of equal score, the one that comes first in the input; the output is
\* ordered by descending pre-existing score with ties in input order.
C29_KeepsBestOfEachClass ==
    dedupeOutput # None =>
        LET out == dedupeOutput[1]
        IN /\ Len(out) = Cardinality(Representatives)
           /\ \A r \in Representatives :
                  out[1 + Cardinality({q \in Representatives : GoesBefore(q, r)})]
                      = dedupeInput[r]

\* a class whose best offer is not the first of the input, next to a class whose
\* only offer has no score
C29_Witness ==
    /\ dedupeOutput # None
    /\ Len(dedupeInput) = 3
    /\ Len(dedupeOutput[1]) = 2
    /\ dedupeOutput[1][1] = dedupeInput[3]
    /\ SameFlight(dedupeInput[1], dedupeInput[3])
    /\ ScoreAt(3) > ScoreAt(1)
    /\ dedupeOutput[1][2] = dedupeInput[2]
    /\ dedupeInput[2].rankingScore = None

\* C26: selectProviders returns, for every includeProviders list specified in
\* the request, exactly the listed names that are registered (unknown names are
\* dropped without error), and returns all registered names when the request
\* specifies no provider subset; it never returns an unregistered name and never
\* changes the registry.
C26_SelectionIsListedAndRegistered ==
    [][(selectParams' # selectParams \/ selectOutput' # selectOutput) =>
          LET q == selectParams'[1]
              out == selectOutput'[1]
          IN /\ providers' = providers
             /\ Range(out) \subseteq Range(providers)
             /\ IF q.includeProviders # None
                THEN Range(out) = Range(q.includeProviders[1]) \cap Range(providers)
                ELSE Range(out) = Range(providers)]_vars

\* the two requests agree on origin, destination, departure date, return date,
\* total passenger count and trip type
AgreeOnKeyFields(q1, q2) ==
    /\ q1.from = q2.from
    /\ q1.to = q2.to
    /\ q1.departDate = q2.departDate
    /\ q1.returnDate = q2.returnDate
    /\ TotalPassengers(q1) = TotalPassengers(q2)
    /\ q1.tripType = q2.tripType

\* C24: generateCacheKey is a deterministic function of exactly origin,
\* destination, departure date, return date (a sentinel when absent), total
\* passenger count and trip type: two requests agreeing on these six get the same
\* key even if they differ in cabin, airlines, maxPrice or includeProviders, and
\* two requests differing in any of the six (including a total passenger count
\* given as a passenger breakdown) get different keys.
C24_KeyOfExactlySixFields ==
    keyOutput # None =>
        (keyOutput[1][1] = keyOutput[1][2]
            <=> AgreeOnKeyFields(keyParams[1][1], keyParams[1][2]))

\* some provider call dispatched by call c has not settled yet
SomePending(c) == \E i \in 1..Len(tasks[c]) : tasks[c][i].state = "pending"

\* C21: searchFlights performs deduplication, ranking, status computation, the
\* cache write and the return only after every dispatched provider call has
\* settled; for every completion order, no result is assembled from a strict
\* subset of the dispatched providers and no provider status is recorded before
\* that provider's call has settled.
C21_ProceedsOnlyWhenAllSettled ==
    /\ [](\A c \in Calls :
            (pc[c] = "fanout" /\ SomePending(c)) =>
                /\ result[c] = None
                /\ pendingSet[c] = None)
    /\ [](\A c \in Calls :
            (pc[c] = "cacheSet" \/ MissReturned(c)) =>
                /\ ~SomePending(c)
                /\ Len(result[c][1].providersQueried) = Len(tasks[c])
                /\ \A i \in 1..Len(tasks[c]) :
                      result[c][1].providersQueried[i].resultsCount
                          = Len(tasks[c][i].flights))
    /\ [][\A c \in Calls :
            (pc[c] = "fanout" /\ pc'[c] # "fanout") =>
                /\ ~SomePending(c)
                /\ tasks'[c] = tasks[c]]_vars

\* a call that dispatched two provider searches has returned with both statuses,
\* one search having resolved with offers and the other having failed
C21_Witness ==
    /\ MissReturned(1)
    /\ Len(tasks[1]) = 2
    /\ \A i \in 1..2 : tasks[1][i].branch = "searched"
    /\ tasks[1][1].failed
    /\ Len(tasks[1][2].flights) = 2
    /\ Len(result[1][1].providersQueried) = 2
    /\ result[1][1].totalResults = 2

\* the instant at which the last provider call of call c settled
LastSettlement(c) ==
    CHOOSE t \in {settledAt[c][i][1] : i \in 1..Len(tasks[c])} :
        \A i \in 1..Len(tasks[c]) : settledAt[c][i][1] <= t

\* C25: each provider status's responseTime is the elapsed time from the start of
\* the fan-out to the settlement of that provider's own call, so a provider that
\* settles earlier is never reported with the time of a slower one.  Stated for
\* calls that resumed at the instant of the last settlement, with the elapsed
\* time counted from startTime.
C25_ResponseTimeIsOwnSettlement ==
    \A c \in Calls :
        (MissReturned(c) /\ result[c][1].timestamp = LastSettlement(c)) =>
            LET st == result[c][1].providersQueried
            IN /\ \A i \in 1..Len(st) :
                      st[i].responseTime = settledAt[c][i][1] - startTime[c]
               /\ \A i, j \in 1..Len(st) :
                      settledAt[c][i][1] < settledAt[c][j][1] =>
                          st[i].responseTime < st[j].responseTime

\* the offers returned by the providers of call c whose call succeeded,
\* concatenated in selection order
CombinedOffers(c) ==
    Concat([i \in 1..Len(tasks[c]) |->
              IF Succeeded(tasks[c][i]) THEN tasks[c][i].flights ELSE <<>>])

\* offer f is offer g with a score and a breakdown attached
ScoredFrom(f, g) ==
    [f EXCEPT !.rankingScore = g.rankingScore, !.scoreBreakdown = g.scoreBreakdown] = g

\* C23: on the miss path the returned flights are exactly rank(dedupe(C)), where C
\* is the concatenation, in selection order, of the offers returned by every
\* provider whose call succeeded: scores are computed relative to the
\* deduplicated population, no two returned offers are dedup-equivalent, every
\* equivalence class offered by a succeeding provider is represented, and
\* totalResults equals flights.length.
C23_FlightsAreRankedDedupedOffers ==
    \A c \in Calls :
        MissReturned(c) =>
            LET r == result[c][1]
                combined == CombinedOffers(c)
            IN /\ r.flights = rankFlights(deduplicateFlights(combined), weights)
               /\ r.totalResults = Len(r.flights)
               /\ \A i, j \in 1..Len(r.flights) :
                      SameFlight(r.flights[i], r.flights[j]) => i = j
               /\ \A k \in 1..Len(combined) :
                      \E i \in 1..Len(r.flights) : SameFlight(r.flights[i], combined[k])
               /\ \A i \in 1..Len(r.flights) :
                      /\ \E k \in 1..Len(combined) : ScoredFrom(r.flights[i], combined[k])
                      /\ r.flights[i].rankingScore
                             = Some(calculateScore(r.flights[i], r.flights, weights))
               /\ \A i, j \in 1..Len(r.flights) :
                      i < j => r.flights[i].rankingScore[1] >= r.flights[j].rankingScore[1]

\* two providers have both returned their offers, two of which are equivalent, and
\* the call has returned three flights
C23_Witness ==
    /\ MissReturned(1)
    /\ toQuery[1] = <<"demo", "kiwi">>
    /\ Len(CombinedOffers(1)) = 4
    /\ \E i, j \in 1..4 : i # j /\ SameFlight(CombinedOffers(1)[i], CombinedOffers(1)[j])
    /\ result[1][1].totalResults = 3

C22_LastWriterWins ==
    /\ [](\A c \in Calls :
            MissReturned(c) =>
                /\ result[c][1].cacheHit = FALSE
                /\ result[c][1]
                     = SearchResultOf(params[c][1], toQuery[c], tasks[c], weights,
                                      startTime[c], result[c][1].timestamp))
    /\ [][\A c \in Calls :
            /\ (pc[c] = "cacheGet" /\ pc'[c] # "cacheGet" /\ path'[c] # "hit") =>
                  /\ pc'[c] = "fanout"
                  /\ Len(tasks'[c]) > 0
                  /\ \A i \in 1..Len(tasks'[c]) : tasks'[c][i].invoked
            /\ (pc[c] = "fanout" /\ pc'[c] = "cacheSet" /\ isConnected) =>
                  pendingSet'[c] = Some(JSONStringify(result'[c][1]))
            /\ (pc[c] = "cacheSet" /\ pc'[c] = "done"
                    /\ redis'[KeyOf(c)] # redis[KeyOf(c)]) =>
                  /\ pendingSet[c] # None
                  /\ redis' = [redis EXCEPT ![KeyOf(c)] =
                                  Some([value |-> pendingSet[c][1],
                                        expiresAt |-> now + CacheTtlSeconds])]
            /\ (pc[c] = "cacheGet" /\ pc'[c] = "done" /\ path'[c] = "hit") =>
                  /\ now < redis[KeyOf(c)][1].expiresAt
                  /\ JSONStringify(result'[c][1])
                       = [redis[KeyOf(c)][1].value EXCEPT !.cacheHit = TRUE]]_vars

\* two calls for one key overlapped (the second runs in slot 2 only while the
\* first is in progress), both read the cache while it was connected, both
\* returned from the miss path with different results, and the cache holds the
\* first call's result, written after the second's
C22_Witness ==
    /\ nCalls = 2
    /\ MissReturned(1)
    /\ MissReturned(2)
    /\ getIssued[1]
    /\ getIssued[2]
    /\ KeyOf(1) = KeyOf(2)
    /\ params[1] # params[2]
    /\ result[1][1].status = "success"
    /\ result[2][1].status = "error"
    /\ result[2][1].timestamp < result[1][1].timestamp
    /\ redis[KeyOf(1)] # None
    /\ redis[KeyOf(1)][1].value = JSONStringify(result[1][1])
    /\ redis[KeyOf(1)][1].expiresAt = now + CacheTtlSeconds

====
